---------------------------- MODULE Spec2Model ----------------------------
(***************************************************************************)
(* llm-zoo: a registry of language-model configurations (MODEL_CONFIGS)    *)
(* and the query, cost, selection and insights functions of src/utils.ts.  *)
(*                                                                         *)
(* Number representation.  Prices are dollars per million tokens with at   *)
(* most two decimals, so inputPrice / outputPrice are held in CENTS per    *)
(* million tokens (0.28 -> 28, 0.56 * 4 -> 224).  cacheDiscountFactor is   *)
(* one of 1.0, 0.25, 0.1 and is held in TWENTIETHS (1.0 -> 20, 0.25 -> 5,  *)
(* 0.1 -> 2).  A cost is the exact rational  whole + frac/20  counted in   *)
(* units of 1e-8 dollar (one token at one cent per million tokens), held   *)
(* as [whole |-> Int, frac |-> 0..19].                                     *)
(***************************************************************************)
EXTENDS Integers, Sequences, FiniteSets, TLC

VARIABLES MODEL_CONFIGS, pc, call, result

vars == <<MODEL_CONFIGS, pc, call, result>>

(***************************************************************************)
(* Bounds of the model.                                                    *)
(***************************************************************************)
\* how many entries of each provider table that is not in src/ are taken in
MaxMissing == 3
\* longest list of models handed to compareCosts
MaxModels == 2

\* the most provider tables a registry is assembled from when the registry
\* is the input of a function under study
MaxTables == 2

\* the most registry entries a caller writes to
MaxWrites == 1

(***************************************************************************)
(* JavaScript values and objects.  An object is the sequence of its own    *)
(* enumerable properties in property order; every object literal inherits  *)
(* from Object.prototype.                                                  *)
(***************************************************************************)
Undefined == [type |-> "undefined"]

Prop(k, v) == [key |-> k, value |-> v]

\* the properties every object literal inherits from Object.prototype
ObjectPrototypeProps ==
  { "constructor", "hasOwnProperty", "isPrototypeOf", "propertyIsEnumerable",
    "toLocaleString", "toString", "valueOf", "__proto__",
    "__defineGetter__", "__defineSetter__", "__lookupGetter__", "__lookupSetter__" }

\* the value of an inherited property: a function or object, never an entry
Inherited(k) == [inherited |-> k]

Object_keys(obj) == [i \in 1..Len(obj) |-> obj[i].key]

Object_values(obj) == [i \in 1..Len(obj) |-> obj[i].value]

OwnKeys(obj) == { obj[i].key : i \in 1..Len(obj) }

\* obj[k]: own property, else the prototype chain, else undefined
Get(obj, k) ==
  IF k \in OwnKeys(obj)
    THEN obj[CHOOSE i \in 1..Len(obj) : obj[i].key = k].value
    ELSE IF k \in ObjectPrototypeProps THEN Inherited(k) ELSE Undefined

\* k in obj: own property or one on the prototype chain
In(k, obj) == k \in OwnKeys(obj) \/ k \in ObjectPrototypeProps

\* v.field for a record-like value; a missing property reads as undefined
Field(v, f) == IF f \in DOMAIN v THEN v[f] ELSE Undefined

\* !v for the values a lookup can give: only undefined is falsy
Falsy(v) == v = Undefined

\* the indices of 1..n that pass, ascending
Select(n, keep(_)) ==
  LET RECURSIVE range(_, _)
      range(lo, hi) ==
        IF lo > hi THEN <<>>
        ELSE IF lo = hi THEN (IF keep(lo) THEN <<lo>> ELSE <<>>)
        ELSE range(lo, (lo + hi) \div 2) \o range(((lo + hi) \div 2) + 1, hi)
  IN  range(1, n)

\* Array.prototype.filter
Filter(arr, test(_)) ==
  LET idx == Select(Len(arr), LAMBDA i : test(arr[i]))
  IN  [j \in 1..Len(idx) |-> arr[idx[j]]]

RECURSIVE Concat(_)
Concat(tables) ==
  IF tables = <<>> THEN <<>>
  ELSE Concat(SubSeq(tables, 1, Len(tables) - 1)) \o tables[Len(tables)]

\* { ...a, ...b, ... }: a key keeps the position of its first definition and
\* takes the value of its last
ObjectSpread(tables) ==
  LET all   == Concat(tables)
      first == Select(Len(all), LAMBDA i : \A j \in 1..(i - 1) : all[j].key # all[i].key)
      last(k) == CHOOSE i \in 1..Len(all) :
                   /\ all[i].key = k
                   /\ \A j \in (i + 1)..Len(all) : all[j].key # k
  IN  [n \in 1..Len(first) |-> Prop(all[first[n]].key, all[last(all[first[n]].key)].value)]

\* Array.prototype.find: the first element that passes, else undefined
Find(arr, test(_)) ==
  LET hits == { i \in 1..Len(arr) : test(arr[i]) }
  IN  IF hits = {} THEN Undefined
      ELSE arr[CHOOSE i \in hits : \A j \in hits : i <= j]

\* Array.prototype.sort(cmp): stable (ECMAScript 2019, target node18); an
\* element moves left only past elements it compares strictly less than
ArraySort(arr, cmp(_, _)) ==
  LET RECURSIVE insert(_, _), upTo(_)
      insert(s, v) ==
        IF s = <<>> THEN <<v>>
        ELSE IF cmp(v, s[Len(s)]) < 0
               THEN Append(insert(SubSeq(s, 1, Len(s) - 1), v), s[Len(s)])
               ELSE Append(s, v)
      upTo(k) == IF k = 0 THEN <<>> ELSE insert(upTo(k - 1), arr[k])
  IN  upTo(Len(arr))

\* arr[i] with a 0-based index; out of range reads as undefined
At(arr, i) == IF i + 1 \in 1..Len(arr) THEN arr[i + 1] ELSE Undefined

(***************************************************************************)
(* Exact costs: whole + frac/20 units of 1e-8 dollar.                      *)
(***************************************************************************)
Whole(n) == [whole |-> n, frac |-> 0]

Twentieths(n) == [whole |-> n \div 20, frac |-> n % 20]

Plus(a, b) ==
  [whole |-> a.whole + b.whole + ((a.frac + b.frac) \div 20),
   frac  |-> (a.frac + b.frac) % 20]

Less(a, b) == a.whole < b.whole \/ (a.whole = b.whole /\ a.frac < b.frac)

\* the sign of a - b
Diff(a, b) == IF Less(a, b) THEN -1 ELSE IF Less(b, a) THEN 1 ELSE 0

(***************************************************************************)
(* src/ModelConfig.ts                                                      *)
(***************************************************************************)
ReasoningEffort ==
  [XHIGH |-> "xhigh", HIGH |-> "high", MEDIUM |-> "medium", LOW |-> "low", NONE |-> "none"]

ModelProvider ==
  << Prop("ANTHROPIC", "anthropic"), Prop("OPENAI", "openai"), Prop("GOOGLE", "google"),
     Prop("DEEPSEEK", "deepseek"), Prop("XAI", "xai"), Prop("MOONSHOT", "moonshot"),
     Prop("DASHSCOPE", "dashscope"), Prop("COPILOT", "copilot"), Prop("OTHERS", "others") >>

DEFAULT_MODEL_CAPABILITIES ==
  [ supportsFunctionCalling |-> TRUE,
    supportsNativeMCPServer |-> FALSE,
    supportsNativeWebSearch |-> FALSE,
    supportsDynamicFilteringWebSearch |-> FALSE,
    supportsNativeCodeExecution |-> FALSE,
    supportsPromptCaching |-> FALSE,
    supportsAutoPromptCaching |-> FALSE,
    cacheDiscountFactor |-> 20,
    supportsReasoning |-> FALSE,
    supportsInterleavedThinking |-> FALSE,
    reasoningEffort |-> ReasoningEffort.NONE,
    supportsVision |-> TRUE,
    supportsNativePdf |-> FALSE,
    supportsAssistantPrefill |-> FALSE,
    supportsPredictiveOutput |-> FALSE,
    supportsTokenCounting |-> FALSE,
    supportsSystemPrompt |-> TRUE,
    supportsIntermDevMsgs |-> FALSE,
    supportsReasoningEffort |-> FALSE,
    supportsNativeAudio |-> FALSE ]

CapabilityKeys == DOMAIN DEFAULT_MODEL_CAPABILITIES

(***************************************************************************)
(* The provider tables of src/providers.                                   *)
(***************************************************************************)
\* src/src/providers/openaiDeepResearchModels.ts
OPENAI_DEEP_RESEARCH_DEFAULT_CAPABILITIES ==
  [DEFAULT_MODEL_CAPABILITIES EXCEPT !.supportsFunctionCalling = FALSE, !.supportsAutoPromptCaching = TRUE, !.cacheDiscountFactor = 5, !.supportsReasoning = TRUE, !.supportsIntermDevMsgs = FALSE, !.supportsVision = TRUE, !.supportsNativeWebSearch = TRUE, !.supportsNativeMCPServer = TRUE, !.supportsNativeCodeExecution = TRUE, !.supportsNativePdf = TRUE]

\* src/src/providers/openaiDeepResearchModels.ts
OPENAI_DEEP_RESEARCH_MODELS ==
  <<
    Prop("o3-deep-research",
      [ name |-> "o3-deep-research",
        fullName |-> "o3-deep-research",
        openrouterFullName |-> "openai/o3-deep-research",
        provider |-> "openai",
        maxOutputTokens |-> 100000,
        contextWindow |-> 200000,
        inputPrice |-> 1000,
        outputPrice |-> 4000,
        capabilities |-> OPENAI_DEEP_RESEARCH_DEFAULT_CAPABILITIES,
        openRouterOnly |-> FALSE,
        requiresResponsesAPI |-> TRUE ]),
    Prop("o4-mini-deep-research",
      [ name |-> "o4-mini-deep-research",
        fullName |-> "o4-mini-deep-research",
        openrouterFullName |-> "openai/o4-mini-deep-research",
        provider |-> "openai",
        maxOutputTokens |-> 100000,
        contextWindow |-> 200000,
        inputPrice |-> 200,
        outputPrice |-> 800,
        capabilities |-> OPENAI_DEEP_RESEARCH_DEFAULT_CAPABILITIES,
        openRouterOnly |-> FALSE,
        requiresResponsesAPI |-> TRUE ])
  >>

\* src/src/providers/xaiModels.ts
XAI_DEFAULT_CAPABILITIES ==
  [DEFAULT_MODEL_CAPABILITIES EXCEPT !.supportsVision = FALSE]

\* src/src/providers/xaiModels.ts
XAI_MODELS ==
  <<
    Prop("grok4",
      [ name |-> "grok4",
        fullName |-> "grok-4-0709",
        openrouterFullName |-> "x-ai/grok-4-0709",
        provider |-> "xai",
        maxOutputTokens |-> 128000,
        contextWindow |-> 256000,
        inputPrice |-> 300,
        outputPrice |-> 1500,
        capabilities |-> [XAI_DEFAULT_CAPABILITIES EXCEPT
          !.supportsReasoning = TRUE,
          !.supportsReasoningEffort = FALSE],
        openRouterOnly |-> FALSE ]),
    Prop("grok3",
      [ name |-> "grok3",
        fullName |-> "grok-3-beta",
        openrouterFullName |-> "x-ai/grok-3",
        provider |-> "xai",
        maxOutputTokens |-> 131072,
        contextWindow |-> 131072,
        inputPrice |-> 300,
        outputPrice |-> 1500,
        capabilities |-> [XAI_DEFAULT_CAPABILITIES EXCEPT
          !.supportsReasoning = FALSE,
          !.supportsReasoningEffort = FALSE],
        openRouterOnly |-> FALSE ]),
    Prop("grok3-",
      [ name |-> "grok3-",
        fullName |-> "grok-3-mini-beta",
        openrouterFullName |-> "x-ai/grok-3-mini-beta",
        provider |-> "xai",
        maxOutputTokens |-> 131072,
        contextWindow |-> 131072,
        inputPrice |-> 30,
        outputPrice |-> 50,
        capabilities |-> [XAI_DEFAULT_CAPABILITIES EXCEPT
          !.supportsReasoning = TRUE,
          !.supportsReasoningEffort = TRUE,
          !.reasoningEffort = ReasoningEffort.LOW],
        openRouterOnly |-> FALSE ]),
    Prop("grok2",
      [ name |-> "grok2",
        fullName |-> "grok-2-1212",
        openrouterFullName |-> "grok-ai/grok-2-1212",
        provider |-> "xai",
        maxOutputTokens |-> 131072,
        contextWindow |-> 131072,
        inputPrice |-> 200,
        outputPrice |-> 1000,
        capabilities |-> XAI_DEFAULT_CAPABILITIES,
        openRouterOnly |-> FALSE ]),
    Prop("grok2v",
      [ name |-> "grok2v",
        fullName |-> "grok-2-1212-vision",
        openrouterFullName |-> "grok-ai/grok-2-1212-vision",
        provider |-> "xai",
        maxOutputTokens |-> 32768,
        contextWindow |-> 32768,
        inputPrice |-> 200,
        outputPrice |-> 1000,
        capabilities |-> [XAI_DEFAULT_CAPABILITIES EXCEPT
          !.supportsVision = TRUE],
        openRouterOnly |-> FALSE ])
  >>

\* src/src/providers/otherModels.ts
OTHER_DEFAULT_CAPABILITIES ==
  DEFAULT_MODEL_CAPABILITIES

\* src/src/providers/otherModels.ts
OTHER_MODELS ==
  <<
    Prop("llama31",
      [ name |-> "llama31",
        fullName |-> "meta-llama/llama-3.1-405b-instruct",
        openrouterFullName |-> "meta-llama/llama-3.1-405b-instruct",
        provider |-> "others",
        maxOutputTokens |-> 131072,
        contextWindow |-> 131072,
        inputPrice |-> 300,
        outputPrice |-> 300,
        capabilities |-> OTHER_DEFAULT_CAPABILITIES,
        openRouterOnly |-> TRUE ]),
    Prop("qvq-72b",
      [ name |-> "qvq-72b",
        fullName |-> "qwen/qvq-72b-preview",
        openrouterFullName |-> "qwen/qvq-72b-preview",
        provider |-> "others",
        maxOutputTokens |-> 4096,
        contextWindow |-> 128000,
        inputPrice |-> 25,
        outputPrice |-> 50,
        capabilities |-> OTHER_DEFAULT_CAPABILITIES,
        openRouterOnly |-> TRUE ])
  >>

\* src/src/providers/deepseekModels.ts
DEEPSEEK_DEFAULT_CAPABILITIES ==
  [DEFAULT_MODEL_CAPABILITIES EXCEPT !.supportsAutoPromptCaching = TRUE, !.cacheDiscountFactor = 2, !.supportsVision = FALSE]

\* src/src/providers/deepseekModels.ts
DEEPSEEK_MODELS ==
  <<
    Prop("deepseek",
      [ name |-> "deepseek",
        fullName |-> "deepseek-chat",
        openrouterFullName |-> "deepseek/deepseek-v3.2",
        provider |-> "deepseek",
        maxOutputTokens |-> 8192,
        contextWindow |-> 128000,
        inputPrice |-> 28,
        outputPrice |-> 42,
        capabilities |-> [DEEPSEEK_DEFAULT_CAPABILITIES EXCEPT
          !.supportsAssistantPrefill = TRUE,
          !.supportsFunctionCalling = TRUE],
        openRouterOnly |-> FALSE ]),
    Prop("deepseekT",
      [ name |-> "deepseekT",
        fullName |-> "deepseek-reasoner",
        openrouterFullName |-> "deepseek/deepseek-v3.2",
        provider |-> "deepseek",
        maxOutputTokens |-> 65536,
        contextWindow |-> 163840,
        inputPrice |-> 28,
        outputPrice |-> 42,
        capabilities |-> [DEEPSEEK_DEFAULT_CAPABILITIES EXCEPT
          !.supportsReasoning = TRUE,
          !.supportsReasoningEffort = FALSE,
          !.supportsFunctionCalling = TRUE,
          !.supportsAssistantPrefill = TRUE],
        openRouterOnly |-> FALSE ]),
    Prop("deepseekT+",
      [ name |-> "deepseekT+",
        fullName |-> "deepseek-reasoner",
        openrouterFullName |-> "deepseek/deepseek-v3.2-speciale",
        provider |-> "deepseek",
        maxOutputTokens |-> 131072,
        contextWindow |-> 163840,
        inputPrice |-> 28,
        outputPrice |-> 42,
        capabilities |-> [DEEPSEEK_DEFAULT_CAPABILITIES EXCEPT
          !.supportsReasoning = TRUE,
          !.supportsReasoningEffort = FALSE,
          !.supportsFunctionCalling = FALSE,
          !.supportsAssistantPrefill = FALSE],
        openRouterOnly |-> FALSE,
        baseUrl |-> "https://api.deepseek.com/v3.2_speciale_expires_on_20251215",
        deprecated |-> TRUE ]),
    Prop("dsv3",
      [ name |-> "dsv3",
        fullName |-> "deepseek-chat",
        openrouterFullName |-> "deepseek/deepseek-chat-v3-0324",
        provider |-> "deepseek",
        maxOutputTokens |-> 64000,
        contextWindow |-> 128000,
        inputPrice |-> 14,
        outputPrice |-> 28,
        capabilities |-> [DEEPSEEK_DEFAULT_CAPABILITIES EXCEPT
          !.supportsAssistantPrefill = TRUE],
        openRouterOnly |-> FALSE,
        deprecated |-> TRUE ]),
    Prop("dsr1",
      [ name |-> "dsr1",
        fullName |-> "deepseek-reasoner",
        openrouterFullName |-> "deepseek/deepseek-r1-0528",
        provider |-> "deepseek",
        maxOutputTokens |-> 65536,
        contextWindow |-> 128000,
        inputPrice |-> 400,
        outputPrice |-> 400,
        capabilities |-> [DEEPSEEK_DEFAULT_CAPABILITIES EXCEPT
          !.supportsReasoning = TRUE,
          !.supportsReasoningEffort = FALSE],
        openRouterOnly |-> FALSE,
        deprecated |-> TRUE ]),
    Prop("dsv3o",
      [ name |-> "dsv3o",
        fullName |-> "deepseek-chat",
        openrouterFullName |-> "deepseek/deepseek-chat-v3-0324",
        provider |-> "deepseek",
        maxOutputTokens |-> 8192,
        contextWindow |-> 64000,
        inputPrice |-> 27,
        outputPrice |-> 110,
        capabilities |-> [DEEPSEEK_DEFAULT_CAPABILITIES EXCEPT
          !.supportsAssistantPrefill = TRUE],
        openRouterOnly |-> FALSE,
        deprecated |-> TRUE ]),
    Prop("dsr1o",
      [ name |-> "dsr1o",
        fullName |-> "deepseek-reasoner",
        openrouterFullName |-> "deepseek/deepseek-r1-0528",
        provider |-> "deepseek",
        maxOutputTokens |-> 64000,
        contextWindow |-> 64000,
        inputPrice |-> 55,
        outputPrice |-> 219,
        capabilities |-> [DEEPSEEK_DEFAULT_CAPABILITIES EXCEPT
          !.supportsReasoning = TRUE,
          !.supportsReasoningEffort = FALSE],
        openRouterOnly |-> FALSE,
        deprecated |-> TRUE ])
  >>

\* src/src/providers/moonshotModels.ts
MOONSHOT_DEFAULT_CAPABILITIES ==
  [DEFAULT_MODEL_CAPABILITIES EXCEPT !.supportsPromptCaching = FALSE, !.supportsSystemPrompt = TRUE]

\* src/src/providers/moonshotModels.ts
MOONSHOT_MODELS ==
  <<
    Prop("kimi",
      [ name |-> "kimi128k",
        fullName |-> "moonshot-v1-128k",
        openrouterFullName |-> "moonshotai/moonshot-v1-128k",
        provider |-> "moonshot",
        maxOutputTokens |-> 64000,
        contextWindow |-> 128000,
        inputPrice |-> 28,
        outputPrice |-> 112,
        capabilities |-> [MOONSHOT_DEFAULT_CAPABILITIES EXCEPT
          !.supportsVision = FALSE],
        openRouterOnly |-> FALSE ]),
    Prop("kimiv",
      [ name |-> "kimi128kv",
        fullName |-> "moonshot-v1-128k-vision",
        openrouterFullName |-> "moonshotai/moonshot-v1-128k-vision",
        provider |-> "moonshot",
        maxOutputTokens |-> 64000,
        contextWindow |-> 128000,
        inputPrice |-> 35,
        outputPrice |-> 140,
        capabilities |-> [MOONSHOT_DEFAULT_CAPABILITIES EXCEPT
          !.supportsVision = TRUE],
        openRouterOnly |-> FALSE ]),
    Prop("kimit",
      [ name |-> "kimit",
        fullName |-> "kimi-thinking-preview",
        openrouterFullName |-> "moonshotai/kimi-thinking-preview",
        provider |-> "moonshot",
        maxOutputTokens |-> 64000,
        contextWindow |-> 128000,
        inputPrice |-> 42,
        outputPrice |-> 168,
        capabilities |-> [MOONSHOT_DEFAULT_CAPABILITIES EXCEPT
          !.supportsVision = TRUE,
          !.supportsReasoning = TRUE],
        openRouterOnly |-> FALSE ]),
    Prop("kimi2",
      [ name |-> "kimi2",
        fullName |-> "kimi-k2-0905-preview",
        openrouterFullName |-> "moonshotai/kimi-k2-0905",
        provider |-> "moonshot",
        maxOutputTokens |-> 64000,
        contextWindow |-> 262144,
        inputPrice |-> 60,
        outputPrice |-> 250,
        capabilities |-> [MOONSHOT_DEFAULT_CAPABILITIES EXCEPT
          !.supportsVision = FALSE,
          !.supportsAutoPromptCaching = TRUE,
          !.cacheDiscountFactor = 5,
          !.supportsReasoning = FALSE],
        openRouterOnly |-> FALSE ]),
    Prop("kimi2+",
      [ name |-> "kimi2+",
        fullName |-> "kimi-k2-turbo-preview",
        openrouterFullName |-> "moonshotai/kimi-k2-turbo",
        provider |-> "moonshot",
        maxOutputTokens |-> 64000,
        contextWindow |-> 262144,
        inputPrice |-> 224,
        outputPrice |-> 888,
        capabilities |-> [MOONSHOT_DEFAULT_CAPABILITIES EXCEPT
          !.supportsVision = FALSE,
          !.supportsAutoPromptCaching = TRUE,
          !.cacheDiscountFactor = 5,
          !.supportsReasoning = FALSE],
        openRouterOnly |-> FALSE ]),
    Prop("kimi2T",
      [ name |-> "kimi2T",
        fullName |-> "kimi-k2-thinking",
        openrouterFullName |-> "moonshotai/kimi-k2-thinking",
        provider |-> "moonshot",
        maxOutputTokens |-> 64000,
        contextWindow |-> 262144,
        inputPrice |-> 56,
        outputPrice |-> 222,
        capabilities |-> [MOONSHOT_DEFAULT_CAPABILITIES EXCEPT
          !.supportsVision = FALSE,
          !.supportsReasoning = TRUE,
          !.supportsInterleavedThinking = TRUE,
          !.supportsAutoPromptCaching = TRUE,
          !.cacheDiscountFactor = 5,
          !.reasoningEffort = ReasoningEffort.HIGH],
        openRouterOnly |-> FALSE ]),
    Prop("kimi2T+",
      [ name |-> "kimi2T+",
        fullName |-> "kimi-k2-thinking-turbo",
        openrouterFullName |-> "moonshotai/kimi-k2-thinking-turbo",
        provider |-> "moonshot",
        maxOutputTokens |-> 64000,
        contextWindow |-> 262144,
        inputPrice |-> 224,
        outputPrice |-> 888,
        capabilities |-> [MOONSHOT_DEFAULT_CAPABILITIES EXCEPT
          !.supportsVision = FALSE,
          !.supportsReasoning = TRUE,
          !.supportsInterleavedThinking = TRUE,
          !.supportsAutoPromptCaching = TRUE,
          !.cacheDiscountFactor = 5,
          !.reasoningEffort = ReasoningEffort.HIGH],
        openRouterOnly |-> FALSE ])
  >>

\* src/unnamed/part_000
DASHSCOPE_DEFAULT_CAPABILITIES ==
  [DEFAULT_MODEL_CAPABILITIES EXCEPT !.supportsPromptCaching = FALSE, !.supportsVision = TRUE, !.supportsSystemPrompt = TRUE]

\* src/unnamed/part_000
DASHSCOPE_MODELS ==
  <<
    Prop("qwen3max",
      [ name |-> "qwen3max",
        fullName |-> "qwen3-max",
        openrouterFullName |-> "qwen/qwen-max",
        provider |-> "dashscope",
        maxOutputTokens |-> 65536,
        contextWindow |-> 262144,
        inputPrice |-> 120,
        outputPrice |-> 600,
        capabilities |-> [DASHSCOPE_DEFAULT_CAPABILITIES EXCEPT
          !.supportsVision = FALSE],
        openRouterOnly |-> FALSE ]),
    Prop("qwenplus",
      [ name |-> "qwenplus",
        fullName |-> "qwen-plus",
        openrouterFullName |-> "qwen/qwen-plus",
        provider |-> "dashscope",
        maxOutputTokens |-> 32768,
        contextWindow |-> 1000000,
        inputPrice |-> 40,
        outputPrice |-> 120,
        capabilities |-> [DASHSCOPE_DEFAULT_CAPABILITIES EXCEPT
          !.supportsVision = FALSE,
          !.supportsReasoning = TRUE],
        openRouterOnly |-> FALSE ]),
    Prop("qwenturbo",
      [ name |-> "qwenturbo",
        fullName |-> "qwen-turbo-latest",
        openrouterFullName |-> "qwen/qwen-turbo",
        provider |-> "dashscope",
        maxOutputTokens |-> 8192,
        contextWindow |-> 131072,
        inputPrice |-> 5,
        outputPrice |-> 50,
        capabilities |-> [DASHSCOPE_DEFAULT_CAPABILITIES EXCEPT
          !.supportsVision = FALSE,
          !.supportsReasoning = TRUE],
        openRouterOnly |-> FALSE ])
  >>

\* src/unnamed/part_000
COPILOT_DEFAULT_CAPABILITIES ==
  [DEFAULT_MODEL_CAPABILITIES EXCEPT !.supportsVision = TRUE, !.supportsNativePdf = FALSE]

\* the Copilot table with the output limit and the context window exchanged
COPILOT_MODELS_outputOverContext ==
  <<
    Prop("copilot4o",
      [ name |-> "copilot4o",
        fullName |-> "copilot-gpt-4o",
        provider |-> "copilot",
        maxOutputTokens |-> 128000,
        contextWindow |-> 8192,
        inputPrice |-> 0,
        outputPrice |-> 0,
        capabilities |-> [COPILOT_DEFAULT_CAPABILITIES EXCEPT
          !.reasoningEffort = ReasoningEffort.MEDIUM],
        openRouterOnly |-> FALSE ])
  >>

\* src/unnamed/part_000
COPILOT_MODELS ==
  <<
    Prop("copilot4o",
      [ name |-> "copilot4o",
        fullName |-> "copilot-gpt-4o",
        provider |-> "copilot",
        maxOutputTokens |-> 8192,
        contextWindow |-> 128000,
        inputPrice |-> 0,
        outputPrice |-> 0,
        capabilities |-> [COPILOT_DEFAULT_CAPABILITIES EXCEPT
          !.reasoningEffort = ReasoningEffort.MEDIUM],
        openRouterOnly |-> FALSE ])
  >>


(***************************************************************************)
(* The provider tables whose files are not part of the sources at hand     *)
(* (anthropicModels.ts, openaiReasoningModels.ts, openaiModels.ts,         *)
(* googleModels.ts).  Their entries are taken from what README.md and the  *)
(* comments of the registry say about them (names, prices, context sizes   *)
(* and capabilities), the attributes stated nowhere filled with values of *)
(* the documented ranges; the registry takes a prefix of each table.       *)
(***************************************************************************)
ANTHROPIC_DEFAULT_CAPABILITIES ==
  [DEFAULT_MODEL_CAPABILITIES EXCEPT
     !.supportsPromptCaching = TRUE, !.cacheDiscountFactor = 2,
     !.supportsNativePdf = TRUE, !.supportsNativeWebSearch = TRUE,
     !.supportsNativeCodeExecution = TRUE, !.supportsAssistantPrefill = TRUE,
     !.supportsTokenCounting = TRUE]

ANTHROPIC_MODELS ==
  <<
    Prop("opus45T",
      [ name |-> "opus45T", fullName |-> "claude-opus-4-5",
        provider |-> "anthropic", maxOutputTokens |-> 64000, contextWindow |-> 200000,
        inputPrice |-> 500, outputPrice |-> 2500,
        capabilities |-> [ANTHROPIC_DEFAULT_CAPABILITIES EXCEPT
          !.supportsReasoning = TRUE, !.supportsInterleavedThinking = TRUE],
        openRouterOnly |-> FALSE ]),
    Prop("opus45",
      [ name |-> "opus45", fullName |-> "claude-opus-4-5",
        provider |-> "anthropic", maxOutputTokens |-> 64000, contextWindow |-> 200000,
        inputPrice |-> 500, outputPrice |-> 2500,
        capabilities |-> ANTHROPIC_DEFAULT_CAPABILITIES,
        openRouterOnly |-> FALSE ]),
    Prop("sonnet45",
      [ name |-> "sonnet45", fullName |-> "claude-sonnet-4-5",
        provider |-> "anthropic", maxOutputTokens |-> 64000, contextWindow |-> 200000,
        inputPrice |-> 300, outputPrice |-> 1500,
        capabilities |-> ANTHROPIC_DEFAULT_CAPABILITIES,
        openRouterOnly |-> FALSE ]),
    Prop("haiku3",
      [ name |-> "haiku3", fullName |-> "claude-3-haiku-20240307",
        provider |-> "anthropic", maxOutputTokens |-> 4096, contextWindow |-> 200000,
        inputPrice |-> 25, outputPrice |-> 125,
        capabilities |-> [ANTHROPIC_DEFAULT_CAPABILITIES EXCEPT
          !.supportsNativeCodeExecution = FALSE, !.supportsNativeWebSearch = FALSE],
        openRouterOnly |-> FALSE ])
  >>

OPENAI_DEFAULT_CAPABILITIES ==
  [DEFAULT_MODEL_CAPABILITIES EXCEPT
     !.supportsAutoPromptCaching = TRUE, !.cacheDiscountFactor = 5,
     !.supportsPredictiveOutput = TRUE, !.supportsIntermDevMsgs = TRUE]

OPENAI_REASONING_MODELS ==
  <<
    Prop("o3pro",
      [ name |-> "o3pro", fullName |-> "o3-pro",
        provider |-> "openai", maxOutputTokens |-> 100000, contextWindow |-> 200000,
        inputPrice |-> 2000, outputPrice |-> 8000,
        capabilities |-> [OPENAI_DEFAULT_CAPABILITIES EXCEPT
          !.supportsReasoning = TRUE, !.supportsReasoningEffort = TRUE,
          !.reasoningEffort = ReasoningEffort.HIGH, !.cacheDiscountFactor = 20],
        openRouterOnly |-> FALSE,
        requiresResponsesAPI |-> TRUE ])
  >>

OPENAI_MODELS ==
  <<
    Prop("gpt4o-",
      [ name |-> "gpt4o-", fullName |-> "gpt-4o-mini",
        provider |-> "openai", maxOutputTokens |-> 16384, contextWindow |-> 128000,
        inputPrice |-> 15, outputPrice |-> 60,
        capabilities |-> OPENAI_DEFAULT_CAPABILITIES,
        openRouterOnly |-> FALSE ]),
    Prop("gpt41--",
      [ name |-> "gpt41--", fullName |-> "gpt-4.1-nano",
        provider |-> "openai", maxOutputTokens |-> 32768, contextWindow |-> 1000000,
        inputPrice |-> 10, outputPrice |-> 40,
        capabilities |-> OPENAI_DEFAULT_CAPABILITIES,
        openRouterOnly |-> FALSE ]),
    Prop("gpt4o",
      [ name |-> "gpt4o", fullName |-> "gpt-4o-2024-11-20",
        provider |-> "openai", maxOutputTokens |-> 16384, contextWindow |-> 128000,
        inputPrice |-> 250, outputPrice |-> 1000,
        capabilities |-> [OPENAI_DEFAULT_CAPABILITIES EXCEPT
          !.supportsNativeWebSearch = TRUE],
        openRouterOnly |-> FALSE ])
  >>

GOOGLE_DEFAULT_CAPABILITIES ==
  [DEFAULT_MODEL_CAPABILITIES EXCEPT
     !.supportsPromptCaching = TRUE, !.cacheDiscountFactor = 5,
     !.supportsReasoning = TRUE, !.supportsNativePdf = TRUE,
     !.supportsNativeAudio = TRUE, !.supportsNativeWebSearch = TRUE,
     !.supportsNativeCodeExecution = TRUE]

GOOGLE_MODELS ==
  <<
    Prop("gemini3p",
      [ name |-> "gemini3p", fullName |-> "gemini-3-pro-preview",
        provider |-> "google", maxOutputTokens |-> 65536, contextWindow |-> 1048576,
        inputPrice |-> 200, outputPrice |-> 1200,
        capabilities |-> GOOGLE_DEFAULT_CAPABILITIES,
        openRouterOnly |-> FALSE ]),
    Prop("gemini25p",
      [ name |-> "gemini25p", fullName |-> "gemini-2.5-pro",
        provider |-> "google", maxOutputTokens |-> 65536, contextWindow |-> 1048576,
        inputPrice |-> 125, outputPrice |-> 1000,
        capabilities |-> GOOGLE_DEFAULT_CAPABILITIES,
        openRouterOnly |-> FALSE ]),
    Prop("gemini3f",
      [ name |-> "gemini3f", fullName |-> "gemini-3-flash-preview",
        provider |-> "google", maxOutputTokens |-> 65536, contextWindow |-> 1048576,
        inputPrice |-> 30, outputPrice |-> 250,
        capabilities |-> GOOGLE_DEFAULT_CAPABILITIES,
        openRouterOnly |-> FALSE ]),
    Prop("gemini25f-",
      [ name |-> "gemini25f-", fullName |-> "gemini-2.5-flash-lite",
        provider |-> "google", maxOutputTokens |-> 65536, contextWindow |-> 1048576,
        inputPrice |-> 10, outputPrice |-> 40,
        capabilities |-> [GOOGLE_DEFAULT_CAPABILITIES EXCEPT !.supportsReasoning = FALSE],
        openRouterOnly |-> FALSE ])
  >>

(***************************************************************************)
(* src/ModelRegistry.ts (the second half of src/utils.ts)                  *)
(***************************************************************************)
Take(t, n) == SubSeq(t, 1, IF n < Len(t) THEN n ELSE Len(t))

\* MODEL_CONFIGS = { ...ANTHROPIC_MODELS, ..., ...COPILOT_MODELS }, with the
\* first n entries of each table that is not in the sources at hand
ModelRegistry(n) ==
  ObjectSpread(<< Take(ANTHROPIC_MODELS, n),
                  OPENAI_DEEP_RESEARCH_MODELS,
                  Take(OPENAI_REASONING_MODELS, n),
                  Take(OPENAI_MODELS, n),
                  Take(GOOGLE_MODELS, n),
                  XAI_MODELS,
                  OTHER_MODELS,
                  DEEPSEEK_MODELS,
                  MOONSHOT_MODELS,
                  DASHSCOPE_MODELS,
                  COPILOT_MODELS >>)

MODELS == Object_keys(MODEL_CONFIGS)

(***************************************************************************)
(* Outcomes of a call.                                                     *)
(***************************************************************************)
Return(v) == [kind |-> "return", value |-> v]

Throw(e) == [kind |-> "throw", error |-> e]

\* new Error(`Unknown model: ${model}`)
UnknownModel(model) == [name |-> "Error", message |-> "Unknown model: " \o model]

\* reading a property of undefined
TypeError(prop) ==
  [name |-> "TypeError",
   message |-> "Cannot read properties of undefined (reading '" \o prop \o "')"]

\* an argument of type ModelConfig | string
Str(s) == [type |-> "string", str |-> s]

Obj(o) == [type |-> "object", obj |-> o]

(***************************************************************************)
(* src/utils.ts: Lookup                                                    *)
(***************************************************************************)
lookup(name) == Get(MODEL_CONFIGS, name)

exists(name) == In(name, MODEL_CONFIGS)

\* resolve taking the last entry of that full name instead of the first
resolve_last(fullName) ==
  LET values == Object_values(MODEL_CONFIGS)
  IN  Find([i \in 1..Len(values) |-> values[Len(values) + 1 - i]],
           LAMBDA m : m.fullName = fullName)

resolve(fullName) ==
  Find(Object_values(MODEL_CONFIGS), LAMBDA m : m.fullName = fullName)

(***************************************************************************)
(* src/utils.ts: Filtering                                                 *)
(***************************************************************************)
from(provider) ==
  Filter(Object_values(MODEL_CONFIGS), LAMBDA m : m.provider = provider)

\* predicate(m.capabilities) for the predicates callers pass to where
Apply(predicate, c) ==
  CASE predicate.fn = "c => c.supportsVision && c.supportsReasoning"
         -> c.supportsVision /\ c.supportsReasoning
    [] predicate.fn = "c => c.cacheDiscountFactor <= 0.1"
         -> c.cacheDiscountFactor <= 2
    [] predicate.fn = "c => !c.supportsFunctionCalling"
         -> ~c.supportsFunctionCalling
    [] predicate.fn = "c => true"  -> TRUE
    [] predicate.fn = "c => false" -> FALSE

where(predicate) ==
  Filter(Object_values(MODEL_CONFIGS), LAMBDA m : Apply(predicate, m.capabilities))

\* typeof m.capabilities[capability] === 'boolean': every field of
\* ModelCapabilities but cacheDiscountFactor (number) and reasoningEffort (enum)
TypeofBoolean(capability) == capability \notin {"cacheDiscountFactor", "reasoningEffort"}

\* supporting with a non-boolean attribute kept only when it differs from
\* DEFAULT_MODEL_CAPABILITIES
supporting_nonDefault(capability) ==
  Filter(Object_values(MODEL_CONFIGS),
         LAMBDA m :
           IF TypeofBoolean(capability)
             THEN m.capabilities[capability]
             ELSE /\ capability \in DOMAIN m.capabilities
                  /\ m.capabilities[capability] # DEFAULT_MODEL_CAPABILITIES[capability])

\* typeof value === 'boolean' ? value : value !== undefined
supporting(capability) ==
  Filter(Object_values(MODEL_CONFIGS),
         LAMBDA m :
           IF TypeofBoolean(capability)
             THEN m.capabilities[capability]
             ELSE capability \in DOMAIN m.capabilities)

withContext(minTokens) ==
  Filter(Object_values(MODEL_CONFIGS), LAMBDA m : m.contextWindow >= minTokens)

\* directAccess without its filter
directAccess_all == Object_values(MODEL_CONFIGS)

directAccess ==
  Filter(Object_values(MODEL_CONFIGS), LAMBDA m : ~m.openRouterOnly)

openRouterOnly ==
  Filter(Object_values(MODEL_CONFIGS), LAMBDA m : m.openRouterOnly)

(***************************************************************************)
(* src/utils.ts: Cost Intelligence                                         *)
(***************************************************************************)
\* typeof model === 'string' ? lookup(model) : model
ConfigOf(model) == IF model.type = "string" THEN lookup(model.str) ELSE model.obj

\* cost with the cached tokens charged twice: at full price and at the discount
cost_cachedTwice(model, tokens) ==
  LET config == ConfigOf(model)
  IN  IF Falsy(config) THEN Throw(UnknownModel(model.str))
      ELSE
        LET input    == tokens.input
            output   == tokens.output
            cached   == IF "cached" \in DOMAIN tokens THEN tokens.cached ELSE 0
            uncached == input
        IN  IF Field(config, "capabilities") = Undefined
              THEN Throw(TypeError("cacheDiscountFactor"))
              ELSE
                LET inputCost  == Whole(uncached * config.inputPrice)
                    cacheCost  == Twentieths(cached * config.inputPrice
                                               * config.capabilities.cacheDiscountFactor)
                    outputCost == Whole(output * config.outputPrice)
                IN  Return(Plus(Plus(inputCost, cacheCost), outputCost))

\* cost with the cached tokens charged at the full input price
cost_undiscounted(model, tokens) ==
  LET config == ConfigOf(model)
  IN  IF Falsy(config) THEN Throw(UnknownModel(model.str))
      ELSE
        LET input    == tokens.input
            output   == tokens.output
            cached   == IF "cached" \in DOMAIN tokens THEN tokens.cached ELSE 0
            uncached == input - cached
        IN  IF Field(config, "capabilities") = Undefined
              THEN Throw(TypeError("cacheDiscountFactor"))
              ELSE
                LET inputCost  == Whole(uncached * config.inputPrice)
                    cacheCost  == Whole(cached * config.inputPrice)
                    outputCost == Whole(output * config.outputPrice)
                IN  Return(Plus(Plus(inputCost, cacheCost), outputCost))

\* cost with a fixed fee added to every request
cost_baseFee(model, tokens) ==
  LET config == ConfigOf(model)
  IN  IF Falsy(config) THEN Throw(UnknownModel(model.str))
      ELSE
        LET input    == tokens.input
            output   == tokens.output
            cached   == IF "cached" \in DOMAIN tokens THEN tokens.cached ELSE 0
            uncached == input - cached
        IN  IF Field(config, "capabilities") = Undefined
              THEN Throw(TypeError("cacheDiscountFactor"))
              ELSE
                LET inputCost  == Whole(uncached * config.inputPrice)
                    cacheCost  == Twentieths(cached * config.inputPrice
                                               * config.capabilities.cacheDiscountFactor)
                    outputCost == Whole(output * config.outputPrice)
                IN  Return(Plus(Plus(Plus(inputCost, cacheCost), outputCost), Whole(1)))

cost(model, tokens) ==
  LET config == ConfigOf(model)
  IN  IF Falsy(config) THEN Throw(UnknownModel(model.str))
      ELSE
        LET input    == tokens.input
            output   == tokens.output
            cached   == IF "cached" \in DOMAIN tokens THEN tokens.cached ELSE 0
            uncached == input - cached
        IN  IF Field(config, "capabilities") = Undefined
              THEN Throw(TypeError("cacheDiscountFactor"))
              ELSE
                LET inputCost  == Whole(uncached * config.inputPrice)
                    cacheCost  == Twentieths(cached * config.inputPrice
                                               * config.capabilities.cacheDiscountFactor)
                    outputCost == Whole(output * config.outputPrice)
                IN  Return(Plus(Plus(inputCost, cacheCost), outputCost))

\* maxCost one output token short of the limit
maxCost_lessOutput(model, inputTokens) ==
  LET config == ConfigOf(model)
  IN  IF Falsy(config) THEN Throw(UnknownModel(model.str))
      ELSE cost(Obj(config),
                [input |-> inputTokens, output |-> Field(config, "maxOutputTokens") - 1])

maxCost(model, inputTokens) ==
  LET config == ConfigOf(model)
  IN  IF Falsy(config) THEN Throw(UnknownModel(model.str))
      ELSE cost(Obj(config),
                [input |-> inputTokens, output |-> Field(config, "maxOutputTokens")])

\* compareCosts without the sort
compareCosts_unsorted(models, tokens) ==
  LET mapped == [i \in 1..Len(models) |->
                   LET config == ConfigOf(models[i])
                   IN  IF Falsy(config) THEN Throw(UnknownModel(models[i].str))
                       ELSE LET c == cost(Obj(config), tokens)
                            IN  IF c.kind = "throw" THEN c
                                ELSE Return([model |-> config, cost |-> c.value])]
      failed == { i \in 1..Len(models) : mapped[i].kind = "throw" }
  IN  IF failed # {}
        THEN mapped[CHOOSE i \in failed : \A j \in failed : i <= j]
        ELSE Return([i \in 1..Len(models) |-> mapped[i].value])


compareCosts(models, tokens) ==
  LET mapped == [i \in 1..Len(models) |->
                   LET config == ConfigOf(models[i])
                   IN  IF Falsy(config) THEN Throw(UnknownModel(models[i].str))
                       ELSE LET c == cost(Obj(config), tokens)
                            IN  IF c.kind = "throw" THEN c
                                ELSE Return([model |-> config, cost |-> c.value])]
      failed == { i \in 1..Len(models) : mapped[i].kind = "throw" }
  IN  IF failed # {}
        THEN mapped[CHOOSE i \in failed : \A j \in failed : i <= j]
        ELSE Return(ArraySort([i \in 1..Len(models) |-> mapped[i].value],
                              LAMBDA a, b : Diff(a.cost, b.cost)))

(***************************************************************************)
(* src/utils.ts: Smart Selection                                           *)
(***************************************************************************)
\* a Partial<ModelCapabilities>: the keys given and their values
Partial(ks, vals) == [keys |-> ks, vals |-> vals]

\* for (const [key, value] of Object.entries(capabilities))
\*   if (m.capabilities[key] !== value) return false;
MatchesAll(m, capabilities) ==
  \A key \in capabilities.keys : m.capabilities[key] = capabilities.vals[key]

\* cheapest without the provider option
cheapest_anyProvider(capabilities, options) ==
  LET candidates ==
        Filter(Object_values(MODEL_CONFIGS),
               LAMBDA m :
                 /\ ~(/\ "minContext" \in DOMAIN options
                      /\ options.minContext # 0
                      /\ m.contextWindow < options.minContext)
                 /\ MatchesAll(m, capabilities))
  IN  IF Len(candidates) = 0 THEN Undefined
      ELSE At(ArraySort(candidates,
                        LAMBDA a, b : a.inputPrice + a.outputPrice
                                        - (b.inputPrice + b.outputPrice)), 0)

\* cheapest sorting dearest first and taking the last element
cheapest_lastOfDescending(capabilities, options) ==
  LET candidates ==
        Filter(Object_values(MODEL_CONFIGS),
               LAMBDA m :
                 /\ ~(/\ "minContext" \in DOMAIN options
                      /\ options.minContext # 0
                      /\ m.contextWindow < options.minContext)
                 /\ ~(/\ "provider" \in DOMAIN options
                      /\ m.provider # options.provider)
                 /\ MatchesAll(m, capabilities))
  IN  IF Len(candidates) = 0 THEN Undefined
      ELSE At(ArraySort(candidates,
                        LAMBDA a, b : (b.inputPrice + b.outputPrice)
                                        - (a.inputPrice + a.outputPrice)),
              Len(candidates) - 1)


\* options?.minContext && ...: an omitted option and 0 are falsy
cheapest(capabilities, options) ==
  LET candidates ==
        Filter(Object_values(MODEL_CONFIGS),
               LAMBDA m :
                 /\ ~(/\ "minContext" \in DOMAIN options
                      /\ options.minContext # 0
                      /\ m.contextWindow < options.minContext)
                 /\ ~(/\ "provider" \in DOMAIN options
                      /\ m.provider # options.provider)
                 /\ MatchesAll(m, capabilities))
  IN  IF Len(candidates) = 0 THEN Undefined
      ELSE At(ArraySort(candidates,
                        LAMBDA a, b : a.inputPrice + a.outputPrice
                                        - (b.inputPrice + b.outputPrice)), 0)

\* smartpick with the budget itself excluded
smartpick_belowBudget(maxPricePerMillion, capabilities) ==
  LET underBudget ==
        Filter(Object_values(MODEL_CONFIGS),
               LAMBDA m : m.inputPrice + m.outputPrice < maxPricePerMillion)
      candidates ==
        IF capabilities # Undefined
          THEN Filter(underBudget, LAMBDA m : MatchesAll(m, capabilities))
          ELSE underBudget
  IN  IF Len(candidates) = 0 THEN Undefined
      ELSE At(ArraySort(candidates,
                        LAMBDA a, b : (b.inputPrice + b.outputPrice)
                                        - (a.inputPrice + a.outputPrice)), 0)


smartpick(maxPricePerMillion, capabilities) ==
  LET underBudget ==
        Filter(Object_values(MODEL_CONFIGS),
               LAMBDA m : m.inputPrice + m.outputPrice <= maxPricePerMillion)
      candidates ==
        IF capabilities # Undefined
          THEN Filter(underBudget, LAMBDA m : MatchesAll(m, capabilities))
          ELSE underBudget
  IN  IF Len(candidates) = 0 THEN Undefined
      ELSE At(ArraySort(candidates,
                        LAMBDA a, b : (b.inputPrice + b.outputPrice)
                                        - (a.inputPrice + a.outputPrice)), 0)

\* getValue measuring 'context' by the output limit
getValue_contextAsOutput(by, m) ==
  CASE by = "price"   -> m.inputPrice + m.outputPrice
    [] by = "context" -> m.maxOutputTokens
    [] by = "output"  -> m.maxOutputTokens

getValue(by, m) ==
  CASE by = "price"   -> m.inputPrice + m.outputPrice
    [] by = "context" -> m.contextWindow
    [] by = "output"  -> m.maxOutputTokens

\* ranked with 'desc' done as the ascending result reversed
ranked_reversed(by, order) ==
  LET asc == ArraySort(Object_values(MODEL_CONFIGS),
                       LAMBDA a, b : getValue(by, a) - getValue(by, b))
  IN  IF order = "asc" THEN asc
      ELSE [i \in 1..Len(asc) |-> asc[Len(asc) + 1 - i]]

\* ranked ignoring the order argument
ranked_ascOnly(by, order) ==
  ArraySort(Object_values(MODEL_CONFIGS),
            LAMBDA a, b : getValue(by, a) - getValue(by, b))


ranked(by, order) ==
  ArraySort(Object_values(MODEL_CONFIGS),
            LAMBDA a, b :
              LET diff == getValue(by, a) - getValue(by, b)
              IN  IF order = "asc" THEN diff ELSE -diff)

(***************************************************************************)
(* src/utils.ts: Insights                                                  *)
(***************************************************************************)
\* the watched flags, each string cut where replace() can match
capabilityKeys ==
  << <<"supports", "FunctionCalling">>,
     <<"supports", "Reasoning">>,
     <<"supports", "Vision">>,
     <<"supports", "Native", "CodeExecution">>,
     <<"supports", "Native", "WebSearch">>,
     <<"supports", "PromptCaching">>,
     <<"supports", "Native", "Pdf">>,
     <<"supports", "Native", "Audio">> >>

RECURSIVE Join(_)
Join(parts) == IF parts = <<>> THEN "" ELSE Head(parts) \o Join(Tail(parts))

\* replace() that strips the pattern only where the string ends with it
Replace_suffixOnly(parts, pattern) ==
  IF parts # <<>> /\ parts[Len(parts)] = pattern
    THEN SubSeq(parts, 1, Len(parts) - 1) ELSE parts

\* String.prototype.replace(pattern, ''): drops the first occurrence
Replace(parts, pattern) ==
  LET hits == { i \in 1..Len(parts) : parts[i] = pattern }
  IN  IF hits = {} THEN parts
      ELSE LET first == CHOOSE i \in hits : \A j \in hits : i <= j
           IN  SubSeq(parts, 1, first - 1) \o SubSeq(parts, first + 1, Len(parts))

\* insights with the largest context taken from a descending sort
insights_largestFirst ==
  LET models == Object_values(MODEL_CONFIGS)
      providers ==
        [i \in 1..Len(ModelProvider) |->
           Prop(ModelProvider[i].value,
                Len(Filter(models, LAMBDA m : m.provider = ModelProvider[i].value)))]
      capabilities ==
        [i \in 1..Len(capabilityKeys) |->
           Prop(Join(Replace(Replace(capabilityKeys[i], "supports"), "Native")),
                Len(Filter(models, LAMBDA m : m.capabilities[Join(capabilityKeys[i])])))]
      byPrice ==
        ArraySort(models, LAMBDA a, b : a.inputPrice + a.outputPrice
                                          - (b.inputPrice + b.outputPrice))
      byContext ==
        ArraySort(models, LAMBDA a, b : a.contextWindow - b.contextWindow)
      byContextDesc ==
        ArraySort(models, LAMBDA a, b : b.contextWindow - a.contextWindow)
  IN  [ totalModels  |-> Len(models),
        providers    |-> providers,
        capabilities |-> capabilities,
        pricing      |-> [ cheapest      |-> At(byPrice, 0),
                           mostExpensive |-> At(byPrice, Len(byPrice) - 1) ],
        context      |-> [ smallest |-> At(byContext, 0),
                           largest  |-> At(byContextDesc, 0) ] ]

\* insights with provider keys only for the providers that have entries
insights_presentProviders ==
  LET models == Object_values(MODEL_CONFIGS)
      providers ==
        Filter([i \in 1..Len(ModelProvider) |->
                  Prop(ModelProvider[i].value,
                       Len(Filter(models, LAMBDA m : m.provider = ModelProvider[i].value)))],
               LAMBDA p : p.value > 0)
      capabilities ==
        [i \in 1..Len(capabilityKeys) |->
           Prop(Join(Replace(Replace(capabilityKeys[i], "supports"), "Native")),
                Len(Filter(models, LAMBDA m : m.capabilities[Join(capabilityKeys[i])])))]
      byPrice ==
        ArraySort(models, LAMBDA a, b : a.inputPrice + a.outputPrice
                                          - (b.inputPrice + b.outputPrice))
      byContext ==
        ArraySort(models, LAMBDA a, b : a.contextWindow - b.contextWindow)
  IN  [ totalModels  |-> Len(models),
        providers    |-> providers,
        capabilities |-> capabilities,
        pricing      |-> [ cheapest      |-> At(byPrice, 0),
                           mostExpensive |-> At(byPrice, Len(byPrice) - 1) ],
        context      |-> [ smallest |-> At(byContext, 0),
                           largest  |-> At(byContext, Len(byContext) - 1) ] ]


insights ==
  LET models == Object_values(MODEL_CONFIGS)
      providers ==
        [i \in 1..Len(ModelProvider) |->
           Prop(ModelProvider[i].value,
                Len(Filter(models, LAMBDA m : m.provider = ModelProvider[i].value)))]
      capabilities ==
        [i \in 1..Len(capabilityKeys) |->
           Prop(Join(Replace(Replace(capabilityKeys[i], "supports"), "Native")),
                Len(Filter(models, LAMBDA m : m.capabilities[Join(capabilityKeys[i])])))]
      byPrice ==
        ArraySort(models, LAMBDA a, b : a.inputPrice + a.outputPrice
                                          - (b.inputPrice + b.outputPrice))
      byContext ==
        ArraySort(models, LAMBDA a, b : a.contextWindow - b.contextWindow)
  IN  [ totalModels  |-> Len(models),
        providers    |-> providers,
        capabilities |-> capabilities,
        pricing      |-> [ cheapest      |-> At(byPrice, 0),
                           mostExpensive |-> At(byPrice, Len(byPrice) - 1) ],
        context      |-> [ smallest |-> At(byContext, 0),
                           largest  |-> At(byContext, Len(byContext) - 1) ] ]


(***************************************************************************)
(* src/utils.ts: Legacy Aliases. An optional parameter is the sequence of  *)
(* the values given for it: empty when omitted.                            *)
(***************************************************************************)
\* calculateCost passing the cached count on as 0
calculateCost_cachedDropped(model, inputTokens, outputTokens, cachedInputTokens) ==
  cost(model, [input |-> inputTokens, output |-> outputTokens, cached |-> 0])

\* cachedInputTokens: number = 0
calculateCost(model, inputTokens, outputTokens, cachedInputTokens) ==
  cost(model, [input |-> inputTokens, output |-> outputTokens,
               cached |-> IF cachedInputTokens = <<>> THEN 0
                          ELSE cachedInputTokens[1]])

\* ascending: boolean = true
sortModelsByMetric(metric, ascending) ==
  ranked(metric, IF (IF ascending = <<>> THEN TRUE ELSE ascending[1])
                   THEN "asc" ELSE "desc")

\* minContextWindow !== undefined ? { minContext: minContextWindow } : {}
findCheapestModel(requirements, minContextWindow) ==
  cheapest(requirements,
           IF minContextWindow # <<>>
             THEN [minContext |-> minContextWindow[1]]
             ELSE <<>>)

(***************************************************************************)
(* The arguments callers pass.                                             *)
(***************************************************************************)
\* configurations a caller builds itself and hands to the cost functions
EntryA ==
  [ name |-> "A", fullName |-> "model-a", provider |-> "others",
    maxOutputTokens |-> 8192, contextWindow |-> 200000,
    inputPrice |-> 300, outputPrice |-> 1500,
    capabilities |-> [DEFAULT_MODEL_CAPABILITIES EXCEPT
      !.supportsPromptCaching = TRUE, !.cacheDiscountFactor = 2],
    openRouterOnly |-> FALSE ]

EntryB ==
  [ name |-> "B", fullName |-> "model-b", provider |-> "others",
    maxOutputTokens |-> 8192, contextWindow |-> 128000,
    inputPrice |-> 15, outputPrice |-> 40,
    capabilities |-> DEFAULT_MODEL_CAPABILITIES,
    openRouterOnly |-> FALSE ]

Entries == { MODEL_CONFIGS[i].value : i \in 1..Len(MODEL_CONFIGS) }

NameInputs ==
  OwnKeys(MODEL_CONFIGS)
    \cup { e.name : e \in Entries }
    \cup { "sonnet45", "gpt-unknown", "", "toString", "constructor", "__proto__",
           "hasOwnProperty", "valueOf" }

FullNameInputs ==
  { e.fullName : e \in Entries } \cup { "claude-sonnet-4-5", "no-such-model", "toString" }

ModelInputs ==
  { Str(s) : s \in NameInputs } \cup { Obj(e) : e \in Entries \cup { EntryA, EntryB } }

TokenInputs ==
  { [input |-> i, output |-> o] : i \in {0, 10000}, o \in {0, 5000} }
    \cup { [input |-> i, output |-> o, cached |-> c] :
             i \in {0, 10000}, o \in {0, 5000}, c \in {0, 8000, 10000} }

InputTokenInputs == {0, 10000, 50000}

\* the models compareCosts is asked to compare
CompareInputs ==
  << Str("grok4"), Str("grok3"), Str("deepseek"), Str("copilot4o"),
     Obj(EntryA), Obj(EntryB), Str("gpt-unknown"), Str("toString") >>

CompareTokenInputs ==
  << [input |-> 1000000, output |-> 0],
     [input |-> 10000, output |-> 5000, cached |-> 8000],
     [input |-> 0, output |-> 0] >>

RECURSIVE ListsUpTo(_)
ListsUpTo(n) ==
  IF n = 0 THEN { <<>> }
  ELSE ListsUpTo(n - 1)
         \cup { Append(l, CompareInputs[i]) :
                  l \in { k \in ListsUpTo(n - 1) : Len(k) = n - 1 },
                  i \in 1..Len(CompareInputs) }

CapabilityInputs ==
  { Partial({}, DEFAULT_MODEL_CAPABILITIES),
    Partial({"supportsVision"}, DEFAULT_MODEL_CAPABILITIES),
    Partial({"supportsVision"},
            [DEFAULT_MODEL_CAPABILITIES EXCEPT !.supportsVision = FALSE]),
    Partial({"supportsReasoning"},
            [DEFAULT_MODEL_CAPABILITIES EXCEPT !.supportsReasoning = TRUE]),
    Partial({"supportsVision", "supportsReasoning"},
            [DEFAULT_MODEL_CAPABILITIES EXCEPT !.supportsReasoning = TRUE]),
    Partial({"supportsFunctionCalling"},
            [DEFAULT_MODEL_CAPABILITIES EXCEPT !.supportsFunctionCalling = FALSE]),
    Partial({"cacheDiscountFactor"},
            [DEFAULT_MODEL_CAPABILITIES EXCEPT !.cacheDiscountFactor = 5]),
    Partial({"reasoningEffort", "supportsReasoning"},
            [DEFAULT_MODEL_CAPABILITIES EXCEPT
               !.reasoningEffort = ReasoningEffort.HIGH, !.supportsReasoning = TRUE]),
    Partial({"supportsNativeAudio"},
            [DEFAULT_MODEL_CAPABILITIES EXCEPT !.supportsNativeAudio = TRUE]),
    Partial({"supportsVision", "supportsTokenCounting"},
            [DEFAULT_MODEL_CAPABILITIES EXCEPT
               !.supportsVision = FALSE, !.supportsTokenCounting = TRUE]) }

\* options?: { minContext?, provider? }; Undefined is the omitted argument
OptionInputs ==
  { Undefined }
    \cup { [minContext |-> c] : c \in {0, 100000, 128000, 262144, 2000000} }
    \cup { [provider |-> p] : p \in {"xai", "deepseek", "anthropic"} }
    \cup { [minContext |-> c, provider |-> p] :
             c \in {128000, 200000}, p \in {"xai", "moonshot"} }

BudgetInputs == { -1, 0, 42, 55, 70, 500, 1120, 1800, 30000 }

ProviderInputs == { ModelProvider[i].value : i \in 1..Len(ModelProvider) }

PredicateInputs ==
  { [fn |-> f] : f \in { "c => c.supportsVision && c.supportsReasoning",
                         "c => c.cacheDiscountFactor <= 0.1",
                         "c => !c.supportsFunctionCalling",
                         "c => true", "c => false" } }

\* capability: keyof ModelCapabilities
CapabilityNameInputs == CapabilityKeys

MinTokensInputs == { 0, 128000, 200000, 262144, 1000000, 3000000 }

(***************************************************************************)
(* The state machine: the registry is built once, then a caller calls the  *)
(* public functions one at a time and takes each result.                   *)
(***************************************************************************)
NoCall == [op |-> "none"]

Init ==
  /\ \E n \in 0..MaxMissing : MODEL_CONFIGS = ModelRegistry(n)
  /\ pc = "ready"
  /\ call = NoCall
  /\ result = Undefined

\* the return of a call whose ranked() sorted the registry's own entries in
\* place instead of the array Object.values() made
Done_sortsRegistry(c, r) ==
  /\ pc' = "done"
  /\ call' = c
  /\ result' = r
  /\ MODEL_CONFIGS' =
       IF c.op = "ranked"
         THEN [i \in 1..Len(MODEL_CONFIGS) |->
                 MODEL_CONFIGS[CHOOSE j \in 1..Len(MODEL_CONFIGS) :
                                 MODEL_CONFIGS[j].value = r.value[i]]]
         ELSE MODEL_CONFIGS

Done(c, r) ==
  /\ pc' = "done"
  /\ call' = c
  /\ result' = r
  /\ UNCHANGED MODEL_CONFIGS

Lookup ==
  /\ pc = "ready"
  /\ \E name \in NameInputs :
       Done([op |-> "lookup", name |-> name], Return(lookup(name)))

Resolve ==
  /\ pc = "ready"
  /\ \E fullName \in FullNameInputs :
       Done([op |-> "resolve", fullName |-> fullName], Return(resolve(fullName)))

Exists ==
  /\ pc = "ready"
  /\ \E name \in NameInputs :
       Done([op |-> "exists", name |-> name], Return(exists(name)))

Cost ==
  /\ pc = "ready"
  /\ \E model \in ModelInputs, tokens \in TokenInputs :
       Done([op |-> "cost", model |-> model, tokens |-> tokens], cost(model, tokens))

MaxCost ==
  /\ pc = "ready"
  /\ \E model \in ModelInputs, inputTokens \in InputTokenInputs :
       Done([op |-> "maxCost", model |-> model, inputTokens |-> inputTokens],
            maxCost(model, inputTokens))

CompareCosts ==
  /\ pc = "ready"
  /\ \E models \in ListsUpTo(MaxModels), t \in 1..Len(CompareTokenInputs) :
       Done([op |-> "compareCosts", models |-> models, tokens |-> CompareTokenInputs[t]],
            compareCosts(models, CompareTokenInputs[t]))

Cheapest ==
  /\ pc = "ready"
  /\ \E capabilities \in CapabilityInputs, options \in OptionInputs :
       Done([op |-> "cheapest", capabilities |-> capabilities, options |-> options],
            Return(cheapest(capabilities, options)))

Smartpick ==
  /\ pc = "ready"
  /\ \E maxPricePerMillion \in BudgetInputs,
        capabilities \in CapabilityInputs \cup { Undefined } :
       Done([op |-> "smartpick", maxPricePerMillion |-> maxPricePerMillion,
             capabilities |-> capabilities],
            Return(smartpick(maxPricePerMillion, capabilities)))

From ==
  /\ pc = "ready"
  /\ \E provider \in ProviderInputs :
       Done([op |-> "from", provider |-> provider], Return(from(provider)))

Where ==
  /\ pc = "ready"
  /\ \E predicate \in PredicateInputs :
       Done([op |-> "where", predicate |-> predicate], Return(where(predicate)))

Supporting ==
  /\ pc = "ready"
  /\ \E capability \in CapabilityNameInputs :
       Done([op |-> "supporting", capability |-> capability],
            Return(supporting(capability)))

WithContext ==
  /\ pc = "ready"
  /\ \E minTokens \in MinTokensInputs :
       Done([op |-> "withContext", minTokens |-> minTokens],
            Return(withContext(minTokens)))

DirectAccess ==
  /\ pc = "ready"
  /\ Done([op |-> "directAccess"], Return(directAccess))

OpenRouterOnly ==
  /\ pc = "ready"
  /\ Done([op |-> "openRouterOnly"], Return(openRouterOnly))

CalculateCost ==
  /\ pc = "ready"
  /\ \E model \in ModelInputs, inputTokens \in {0, 10000}, outputTokens \in {0, 5000},
        cachedInputTokens \in { <<>>, <<0>>, <<8000>> } :
       Done([op |-> "calculateCost", model |-> model, inputTokens |-> inputTokens,
             outputTokens |-> outputTokens, cachedInputTokens |-> cachedInputTokens],
            calculateCost(model, inputTokens, outputTokens, cachedInputTokens))

SortModelsByMetric ==
  /\ pc = "ready"
  /\ \E metric \in {"price", "context", "output"},
        ascending \in { <<>>, <<TRUE>>, <<FALSE>> } :
       Done([op |-> "sortModelsByMetric", metric |-> metric, ascending |-> ascending],
            Return(sortModelsByMetric(metric, ascending)))

FindCheapestModel ==
  /\ pc = "ready"
  /\ \E requirements \in CapabilityInputs,
        minContextWindow \in { <<>>, <<0>>, <<128000>>, <<262144>>, <<2000000>> } :
       Done([op |-> "findCheapestModel", requirements |-> requirements,
             minContextWindow |-> minContextWindow],
            Return(findCheapestModel(requirements, minContextWindow)))

\* order: 'asc' | 'desc' = 'asc'
Ranked ==
  /\ pc = "ready"
  /\ \E by \in {"price", "context", "output"},
        args \in { <<>>, <<"asc">>, <<"desc">> } :
       Done([op |-> "ranked", by |-> by, order |-> args],
            Return(ranked(by, IF Len(args) = 0 THEN "asc" ELSE args[1])))

Insights ==
  /\ pc = "ready"
  /\ Done([op |-> "insights"], Return(insights))

\* the caller takes the result and goes on to its next call
Continue ==
  /\ pc = "done"
  /\ pc' = "ready"
  /\ call' = NoCall
  /\ result' = Undefined
  /\ UNCHANGED MODEL_CONFIGS

Next ==
  \/ Lookup
  \/ Resolve
  \/ Exists
  \/ From
  \/ Where
  \/ Supporting
  \/ WithContext
  \/ DirectAccess
  \/ OpenRouterOnly
  \/ Cost
  \/ MaxCost
  \/ CompareCosts
  \/ Cheapest
  \/ Smartpick
  \/ Ranked
  \/ Insights
  \/ CalculateCost
  \/ SortModelsByMetric
  \/ FindCheapestModel
  \/ Continue

Spec == Init /\ [][Next]_vars

(***************************************************************************)
(* ranked as a function of the registry: the registry is assembled from    *)
(* some of the provider tables, then ranked is called on it.               *)
(***************************************************************************)
ProviderTables ==
  << OPENAI_DEEP_RESEARCH_MODELS, XAI_MODELS, OTHER_MODELS, DEEPSEEK_MODELS,
     MOONSHOT_MODELS, DASHSCOPE_MODELS, COPILOT_MODELS >>

\* { ...t1, ...t2, ... } for the tables numbered in S, in the order of the spread
RegistryOf(S) ==
  LET idx == Select(Len(ProviderTables), LAMBDA i : i \in S)
  IN  ObjectSpread([j \in 1..Len(idx) |-> ProviderTables[idx[j]]])

InitTables ==
  /\ \E S \in SUBSET (1..Len(ProviderTables)) :
       /\ Cardinality(S) \in 1..MaxTables
       /\ MODEL_CONFIGS = RegistryOf(S)
  /\ pc = "ready"
  /\ call = NoCall
  /\ result = Undefined

NextRanked ==
  \/ Ranked
  \/ Continue

SpecRanked == InitTables /\ [][NextRanked]_vars


(***************************************************************************)
(* Callers that write to what they were handed: lookup, resolve and the    *)
(* filters return the registry's own entry objects, nothing is copied or   *)
(* frozen, so an assignment to a returned entry is an assignment to the    *)
(* registry's entry.                                                       *)
(***************************************************************************)
\* the registry as it was built
Built ==
  ModelRegistry(CHOOSE n \in 0..MaxMissing :
                  Object_keys(ModelRegistry(n)) = Object_keys(MODEL_CONFIGS))

\* the keys of the entries the caller writes to
WriteTargets == { "grok2", "deepseek", "kimi" }

\* the positions of the registry entries a finished call handed out
Handed ==
  { i \in 1..Len(MODEL_CONFIGS) :
      /\ pc = "done" /\ result.kind = "return"
      /\ \/ call.op \in {"lookup", "resolve"} /\ result.value = MODEL_CONFIGS[i].value
         \/ /\ call.op = "from"
            /\ \E j \in 1..Len(result.value) : result.value[j] = MODEL_CONFIGS[i].value }

\* the registry once the object of entry i is the object e
Aliased(i, e) == [MODEL_CONFIGS EXCEPT ![i] = Prop(MODEL_CONFIGS[i].key, e)]

Written(registry) ==
  LET built == Built
  IN  Cardinality({ i \in 1..Len(registry) : registry[i] # built[i] })

\* entry.inputPrice = price, or entry.capabilities.supportsVision = !flag,
\* on an entry a call returned
CallerWrites ==
  /\ pc = "done"
  /\ \E i \in Handed :
       /\ MODEL_CONFIGS[i].key \in WriteTargets
       /\ \E after \in
              { Aliased(i, [MODEL_CONFIGS[i].value EXCEPT !.inputPrice = price]) :
                  price \in {0} }
              \cup
              { Aliased(i, [MODEL_CONFIGS[i].value EXCEPT
                             !.capabilities.supportsVision = ~@]) } :
            /\ Written(after) <= MaxWrites
            /\ MODEL_CONFIGS' = after
  /\ pc' = "ready"
  /\ call' = NoCall
  /\ result' = Undefined

NextWrites ==
  \/ Lookup
  \/ Resolve
  \/ From
  \/ CallerWrites
  \/ Continue

SpecWrites == Init /\ [][NextWrites]_vars

(***************************************************************************)
(* Properties.                                                             *)
(***************************************************************************)
\* a cost in twentieths of 1e-8 dollar, i.e. in units of 5e-10 dollar
Scaled(c) == 20 * c.whole + c.frac

\* the position of a key in the registry
IndexOf(k) == CHOOSE i \in 1..Len(MODEL_CONFIGS) : MODEL_CONFIGS[i].key = k

IsEntry(v) == v \in Entries \cup { EntryA, EntryB }

\* the cached count of a usage, 0 when omitted
CachedOf(tokens) == IF "cached" \in DOMAIN tokens THEN tokens.cached ELSE 0

\* the entry a cost call is about, when it names one
CalledEntry ==
  IF call.model.type = "object" THEN call.model.obj
  ELSE MODEL_CONFIGS[IndexOf(call.model.str)].value

NamesEntry(model) == model.type = "object" \/ model.str \in OwnKeys(MODEL_CONFIGS)

\* C1: for every entry and every usage with 0 <= cached <= input (cached 0
\* when omitted) cost is ((input - cached)/1e6)*inputPrice
\* + (cached/1e6)*inputPrice*cacheDiscountFactor + (output/1e6)*outputPrice;
\* at inputPrice 3, outputPrice 15, factor 0.1 the usage {10000, 5000} costs
\* 0.105 and {10000, 5000, cached 8000} costs 0.0834.
Thm_C1_CostFormula ==
  (pc = "done" /\ call.op = "cost" /\ NamesEntry(call.model)
     /\ 0 <= CachedOf(call.tokens) /\ CachedOf(call.tokens) <= call.tokens.input)
  => LET e == CalledEntry
         t == call.tokens
         f == e.capabilities.cacheDiscountFactor
     IN  /\ result.kind = "return"
         /\ Scaled(result.value)
              = 20 * (t.input - CachedOf(t)) * e.inputPrice
                  + CachedOf(t) * e.inputPrice * f
                  + 20 * t.output * e.outputPrice
         /\ (e.inputPrice = 300 /\ e.outputPrice = 1500 /\ f = 2
               /\ t.input = 10000 /\ t.output = 5000)
            => /\ CachedOf(t) = 0    => Scaled(result.value) = 210000000
               /\ CachedOf(t) = 8000 => Scaled(result.value) = 166800000

\* cost(A, {input: 10000, output: 5000, cached: 8000}) has returned 0.0834
Wit_C1_CachedExample ==
  /\ pc = "done" /\ call.op = "cost"
  /\ call.model = Obj(EntryA)
  /\ call.tokens = [input |-> 10000, output |-> 5000, cached |-> 8000]
  /\ result = Return([whole |-> 8340000, frac |-> 0])

\* the strings of a call to a cost function that are not keys of the registry
UnknownStrings ==
  IF call.op = "compareCosts"
    THEN { call.models[i].str :
             i \in { j \in 1..Len(call.models) :
                       /\ call.models[j].type = "string"
                       /\ call.models[j].str \notin OwnKeys(MODEL_CONFIGS) } }
    ELSE IF call.model.type = "string" /\ call.model.str \notin OwnKeys(MODEL_CONFIGS)
           THEN { call.model.str } ELSE {}

\* C2: cost, maxCost and compareCosts given a string that is not a key of the
\* registry raise an UnknownModel error carrying that string; it is their only
\* failure, they return for entries and for strings that are keys.
Claim_C2_UnknownModelOnly ==
  (pc = "done" /\ call.op \in {"cost", "maxCost", "compareCosts"})
  => IF UnknownStrings = {}
       THEN result.kind = "return"
       ELSE \E s \in UnknownStrings : result = Throw(UnknownModel(s))


\* what the claims call the constraints of a selection
Satisfies(m, capabilities, options) ==
  /\ \A k \in capabilities.keys : m.capabilities[k] = capabilities.vals[k]
  /\ "minContext" \in DOMAIN options => m.contextWindow >= options.minContext
  /\ "provider" \in DOMAIN options => m.provider = options.provider

Price(m) == m.inputPrice + m.outputPrice

Positions == 1..Len(MODEL_CONFIGS)

EntryAt(i) == MODEL_CONFIGS[i].value

\* the registry position of an entry
PositionOf(e) == CHOOSE i \in Positions : EntryAt(i) = e

\* the first position of a non-empty set of positions
First(S) == CHOOSE i \in S : \A j \in S : i <= j

\* the last position of a non-empty set of positions
Last(S) == CHOOSE i \in S : \A j \in S : j <= i

\* C3: an entry returned by cheapest(caps, opts) equals caps on every field
\* given in caps, has contextWindow >= opts.minContext when minContext is
\* given and provider = opts.provider when provider is given.
Thm_C3_CheapestSatisfies ==
  (pc = "done" /\ call.op = "cheapest" /\ result.value # Undefined)
  => Satisfies(result.value, call.capabilities, call.options)

\* cheapest has returned an entry under capability, context and provider constraints
Wit_C3_Constrained ==
  /\ pc = "done" /\ call.op = "cheapest"
  /\ call.capabilities.keys # {}
  /\ "minContext" \in DOMAIN call.options /\ "provider" \in DOMAIN call.options
  /\ result.value # Undefined
  /\ \E i \in Positions : ~Satisfies(EntryAt(i), call.capabilities, call.options)

\* C4: cheapest returns absent exactly when no entry satisfies the
\* constraints, else an entry of minimal inputPrice + outputPrice among those
\* that do, the first in registry order among several of that price.
Thm_C4_CheapestMinimalFirst ==
  (pc = "done" /\ call.op = "cheapest")
  => LET S == { i \in Positions : Satisfies(EntryAt(i), call.capabilities, call.options) }
         M == { i \in S : \A j \in S : Price(EntryAt(i)) <= Price(EntryAt(j)) }
     IN  IF S = {} THEN result.value = Undefined
         ELSE result.value = EntryAt(First(M))

\* cheapest has returned the first of several entries of the minimal price,
\* with dearer candidates left behind
Wit_C4_Tie ==
  /\ pc = "done" /\ call.op = "cheapest" /\ result.value # Undefined
  /\ \E i, j \in Positions :
       /\ Satisfies(EntryAt(i), call.capabilities, call.options)
       /\ Satisfies(EntryAt(j), call.capabilities, call.options)
       /\ EntryAt(i) # result.value /\ Price(EntryAt(i)) = Price(result.value)
       /\ Price(EntryAt(j)) > Price(result.value)

\* the entries smartpick may choose from, as the claim states them
WithinBudget ==
  { i \in Positions :
      /\ Price(EntryAt(i)) <= call.maxPricePerMillion
      /\ call.capabilities # Undefined
           => \A k \in call.capabilities.keys :
                EntryAt(i).capabilities[k] = call.capabilities.vals[k] }

\* C5: smartpick(budget, caps?) returns, among the entries with
\* inputPrice + outputPrice <= budget (boundary included) that equal caps on
\* every given field, one of maximal combined price, and absent when there is
\* none.
Thm_C5_SmartpickMaximal ==
  (pc = "done" /\ call.op = "smartpick")
  => IF WithinBudget = {} THEN result.value = Undefined
     ELSE /\ \E i \in WithinBudget : result.value = EntryAt(i)
          /\ \A i \in WithinBudget : Price(EntryAt(i)) <= Price(result.value)

\* smartpick has returned an entry priced exactly at the budget, with cheaper
\* candidates and entries over the budget around
Wit_C5_Boundary ==
  /\ pc = "done" /\ call.op = "smartpick" /\ result.value # Undefined
  /\ Price(result.value) = call.maxPricePerMillion
  /\ \E i \in WithinBudget : Price(EntryAt(i)) < Price(result.value)
  /\ \E i \in Positions : Price(EntryAt(i)) > call.maxPricePerMillion

\* the metric of ranked, as the claim states it
Metric(by, m) ==
  IF by = "price" THEN m.inputPrice + m.outputPrice
  ELSE IF by = "context" THEN m.contextWindow ELSE m.maxOutputTokens

\* the order of a ranked call, asc when omitted
CalledOrder == IF Len(call.order) = 0 THEN "asc" ELSE call.order[1]

\* C6: ranked(metric, order) is a permutation of all registry entries,
\* non-decreasing in the metric for asc (the default) and non-increasing for
\* desc, entries of equal metric in registry order in both.
Thm_C6_RankedStable ==
  (pc = "done" /\ call.op = "ranked")
  => LET r == result.value
     IN  /\ Len(r) = Len(MODEL_CONFIGS)
         /\ \A i \in Positions : \E k \in 1..Len(r) : r[k] = EntryAt(i)
         /\ \A k \in 1..Len(r) : \E i \in Positions : r[k] = EntryAt(i)
         /\ \A k, l \in 1..Len(r) :
              k < l =>
                /\ CalledOrder = "asc"
                     => Metric(call.by, r[k]) <= Metric(call.by, r[l])
                /\ CalledOrder = "desc"
                     => Metric(call.by, r[k]) >= Metric(call.by, r[l])
                /\ Metric(call.by, r[k]) = Metric(call.by, r[l])
                     => PositionOf(r[k]) < PositionOf(r[l])

\* ranked(price, desc) has returned a list with two entries of one price
Wit_C6_DescTie ==
  /\ pc = "done" /\ call.op = "ranked" /\ call.by = "price" /\ call.order = <<"desc">>
  /\ \E k \in 1..(Len(result.value) - 1) :
       /\ Price(result.value[k]) = Price(result.value[k + 1])
       /\ Price(result.value[1]) > Price(result.value[k])

\* the permutations of 1..n
Perms(n) == { f \in [1..n -> 1..n] : \A a, b \in 1..n : f[a] = f[b] => a = b }

\* C7: compareCosts(models, usage) returns one {model, cost} pair per input
\* element with cost = cost(model, usage), in non-decreasing cost, pairs of
\* equal cost in the order their models had in the input.
Thm_C7_CompareCostsStable ==
  (pc = "done" /\ call.op = "compareCosts" /\ result.kind = "return")
  => LET r == result.value
         n == Len(call.models)
     IN  /\ Len(r) = n
         /\ \E f \in Perms(n) :
              /\ \A k \in 1..n :
                   /\ r[k].model = ConfigOf(call.models[f[k]])
                   /\ Return(r[k].cost) = cost(call.models[f[k]], call.tokens)
              /\ \A k, l \in 1..n :
                   k < l => /\ ~Less(r[l].cost, r[k].cost)
                            /\ r[k].cost = r[l].cost => f[k] < f[l]

\* compareCosts([A, B], {input: 1e6, output: 0}) has returned B before A
Wit_C7_Reordered ==
  /\ pc = "done" /\ call.op = "compareCosts"
  /\ call.models = <<Obj(EntryA), Obj(EntryB)>>
  /\ call.tokens = [input |-> 1000000, output |-> 0]
  /\ result.kind = "return"
  /\ result.value[1].model = EntryB /\ result.value[2].model = EntryA

\* the positions of minimal and of maximal combined price and context window
MinPrice == { i \in Positions : \A j \in Positions : Price(EntryAt(i)) <= Price(EntryAt(j)) }

MaxPrice == { i \in Positions : \A j \in Positions : Price(EntryAt(i)) >= Price(EntryAt(j)) }

MinContext ==
  { i \in Positions : \A j \in Positions : EntryAt(i).contextWindow <= EntryAt(j).contextWindow }

MaxContext ==
  { i \in Positions : \A j \in Positions : EntryAt(i).contextWindow >= EntryAt(j).contextWindow }

\* C8 as stated: every extreme of insights() is the first entry in registry
\* order attaining it: pricing.cheapest and pricing.mostExpensive the first of
\* minimal resp. maximal inputPrice + outputPrice, context.smallest and
\* context.largest the first of minimal resp. maximal contextWindow.
Claim_C8_FirstOccurrence ==
  (pc = "done" /\ call.op = "insights")
  => /\ result.value.pricing.cheapest = EntryAt(First(MinPrice))
     /\ result.value.pricing.mostExpensive = EntryAt(First(MaxPrice))
     /\ result.value.context.smallest = EntryAt(First(MinContext))
     /\ result.value.context.largest = EntryAt(First(MaxContext))

\* C8 as amended: pricing.cheapest and context.smallest are the first entries
\* in registry order attaining the minimum, pricing.mostExpensive and
\* context.largest the last entries in registry order attaining the maximum.
Thm_C8_MinFirstMaxLast ==
  (pc = "done" /\ call.op = "insights")
  => /\ result.value.pricing.cheapest = EntryAt(First(MinPrice))
     /\ result.value.pricing.mostExpensive = EntryAt(Last(MaxPrice))
     /\ result.value.context.smallest = EntryAt(First(MinContext))
     /\ result.value.context.largest = EntryAt(Last(MaxContext))

\* insights() has returned over a registry where several entries share the
\* largest context window
Wit_C8_TiedLargest ==
  /\ pc = "done" /\ call.op = "insights"
  /\ First(MaxContext) # Last(MaxContext)
  /\ result.value.context.largest = EntryAt(Last(MaxContext))

\* C9: for every key k of the registry lookup(k) is the entry stored under k
\* and exists(k) is true; for every other string lookup is absent and exists
\* is false.
Claim_C9_LookupExists ==
  /\ (pc = "done" /\ call.op = "lookup")
       => IF call.name \in OwnKeys(MODEL_CONFIGS)
            THEN result.value = EntryAt(IndexOf(call.name))
            ELSE result.value = Undefined
  /\ (pc = "done" /\ call.op = "exists")
       => (result.value <=> call.name \in OwnKeys(MODEL_CONFIGS))

\* C10: the entry stored under a key k has name = k, names are unique across
\* the registry and lookup(e.name) returns e for every entry e.
Claim_C10_NameIsKey ==
  /\ \A i \in Positions : EntryAt(i).name = MODEL_CONFIGS[i].key
  /\ \A i, j \in Positions : EntryAt(i).name = EntryAt(j).name => i = j
  /\ \A i \in Positions : lookup(EntryAt(i).name) = EntryAt(i)

\* the positions of the entries of a full name
NamedFull(fullName) == { i \in Positions : EntryAt(i).fullName = fullName }

\* C11: resolve(fullName) returns the first entry in registry order whose
\* fullName equals the argument, also when several entries share it, and
\* returns undefined when no entry has that fullName.
Thm_C11_ResolveFirst ==
  (pc = "done" /\ call.op = "resolve")
  => result = Return(IF NamedFull(call.fullName) = {} THEN Undefined
                     ELSE EntryAt(First(NamedFull(call.fullName))))

\* resolve has returned the first of several entries sharing a full name
Wit_C11_SharedFullName ==
  /\ pc = "done" /\ call.op = "resolve"
  /\ Cardinality(NamedFull(call.fullName)) >= 2
  /\ result = Return(EntryAt(First(NamedFull(call.fullName))))
  /\ EntryAt(First(NamedFull(call.fullName))) # EntryAt(Last(NamedFull(call.fullName)))

\* C12: supporting(field) returns exactly the registry entries whose flag is
\* true when field is a boolean flag, and whose attribute is not its default
\* value when field is cacheDiscountFactor or reasoningEffort.
Claim_C12_SupportingNonDefault ==
  (pc = "done" /\ call.op = "supporting")
  => result.value
       = Filter(Object_values(MODEL_CONFIGS),
                LAMBDA m :
                  IF call.capability \in {"cacheDiscountFactor", "reasoningEffort"}
                    THEN m.capabilities[call.capability]
                           # DEFAULT_MODEL_CAPABILITIES[call.capability]
                    ELSE m.capabilities[call.capability] = TRUE)

\* C12 as the code has it: for a boolean flag supporting returns exactly the
\* entries whose flag is true, in registry order; for cacheDiscountFactor and
\* reasoningEffort it returns every entry that defines the attribute, which
\* is every registry entry, those holding the default value included.
Thm_C12_SupportingDefined ==
  (pc = "done" /\ call.op = "supporting")
  => /\ result.kind = "return"
     /\ result.value
          = IF call.capability \in {"cacheDiscountFactor", "reasoningEffort"}
              THEN Object_values(MODEL_CONFIGS)
              ELSE Filter(Object_values(MODEL_CONFIGS),
                          LAMBDA m : m.capabilities[call.capability] = TRUE)

\* supporting('cacheDiscountFactor') has returned an entry whose factor is
\* the default 1.0, next to one whose factor is not
Wit_C12_DefaultFactorReturned ==
  /\ pc = "done" /\ call.op = "supporting"
  /\ call.capability = "cacheDiscountFactor"
  /\ \E i, j \in 1..Len(result.value) :
       /\ result.value[i].capabilities.cacheDiscountFactor
            = DEFAULT_MODEL_CAPABILITIES.cacheDiscountFactor
       /\ result.value[j].capabilities.cacheDiscountFactor
            # DEFAULT_MODEL_CAPABILITIES.cacheDiscountFactor

\* the usage of a cost call with cached clamped to input
Clamped(tokens) ==
  [input |-> tokens.input, output |-> tokens.output,
   cached |-> IF CachedOf(tokens) > tokens.input THEN tokens.input ELSE CachedOf(tokens)]

\* C13: cost called with cached greater than input either clamps cached to
\* input or rejects the call with an input-validation error; it never returns
\* a negative value for non-negative input, output and cached.
Claim_C13_ClampOrReject ==
  (pc = "done" /\ call.op = "cost" /\ NamesEntry(call.model)
     /\ call.tokens.input >= 0 /\ call.tokens.output >= 0
     /\ CachedOf(call.tokens) > call.tokens.input)
  => \/ /\ result.kind = "throw"
        /\ result.error.name \notin {"TypeError"}
     \/ /\ result.kind = "return"
        /\ result = cost(Obj(CalledEntry), Clamped(call.tokens))
        /\ ~Less(result.value, Whole(0))

\* the value of an own property of an object built key by key
ValueOf(obj, k) == obj[CHOOSE i \in 1..Len(obj) : obj[i].key = k].value

\* no key is defined twice
DistinctKeys(obj) == \A i, j \in 1..Len(obj) : obj[i].key = obj[j].key => i = j

\* C14: the providers map of insights() has a key for every member of the
\* provider enumeration, each count is the number of registry entries of that
\* provider (0 for a provider without entries), and totalModels is the number
\* of registry entries.
Thm_C14_ProvidersMap ==
  (pc = "done" /\ call.op = "insights")
  => LET providers == result.value.providers
     IN  /\ DistinctKeys(providers)
         /\ OwnKeys(providers) = { ModelProvider[i].value : i \in 1..Len(ModelProvider) }
         /\ \A p \in OwnKeys(providers) :
              ValueOf(providers, p)
                = Cardinality({ i \in Positions : EntryAt(i).provider = p })
         /\ result.value.totalModels = Cardinality(Positions)

\* insights() has counted a provider without entries as 0 next to one with entries
Wit_C14_EmptyProvider ==
  /\ pc = "done" /\ call.op = "insights"
  /\ \E p, q \in OwnKeys(result.value.providers) :
       /\ ValueOf(result.value.providers, p) = 0
       /\ ValueOf(result.value.providers, q) > 1

\* the label of each watched flag
Labels ==
  << Prop("FunctionCalling", "supportsFunctionCalling"),
     Prop("Reasoning", "supportsReasoning"),
     Prop("Vision", "supportsVision"),
     Prop("CodeExecution", "supportsNativeCodeExecution"),
     Prop("WebSearch", "supportsNativeWebSearch"),
     Prop("PromptCaching", "supportsPromptCaching"),
     Prop("Pdf", "supportsNativePdf"),
     Prop("Audio", "supportsNativeAudio") >>

\* C15: the capabilities map of insights() has exactly the eight labels
\* FunctionCalling, Reasoning, Vision, CodeExecution, WebSearch, PromptCaching,
\* Pdf and Audio, and each label's count is the number of registry entries
\* whose flag of that label is true.
Thm_C15_CapabilityLabels ==
  (pc = "done" /\ call.op = "insights")
  => LET capabilities == result.value.capabilities
     IN  /\ DistinctKeys(capabilities)
         /\ Len(capabilities) = 8
         /\ OwnKeys(capabilities) = OwnKeys(Labels)
         /\ \A l \in OwnKeys(Labels) :
              ValueOf(capabilities, l)
                = Cardinality({ i \in Positions :
                                  EntryAt(i).capabilities[ValueOf(Labels, l)] })

\* insights() has counted the entries of a 'Native' flag under its stripped
\* label: some but not all entries execute code natively
Wit_C15_NativeStripped ==
  /\ pc = "done" /\ call.op = "insights"
  /\ "CodeExecution" \in OwnKeys(result.value.capabilities)
  /\ ValueOf(result.value.capabilities, "CodeExecution") > 0
  /\ ValueOf(result.value.capabilities, "CodeExecution") < result.value.totalModels

\* output token counts between 0 and the limit of an entry
OutputsUpTo(e) ==
  { 0, 1, e.maxOutputTokens \div 2, e.maxOutputTokens - 1, e.maxOutputTokens }

\* C16: for every entry and every n >= 0, maxCost(entry, n) is the cost of n
\* input tokens, none of them cached, and maxOutputTokens output tokens, and
\* it is at least cost(entry, {input: n, output: k}) for every k from 0 to
\* maxOutputTokens.
Thm_C16_MaxCostDominates ==
  (pc = "done" /\ call.op = "maxCost" /\ NamesEntry(call.model)
     /\ call.inputTokens >= 0)
  => LET e == CalledEntry
         n == call.inputTokens
     IN  /\ result.kind = "return"
         /\ result.value = Whole(n * e.inputPrice + e.maxOutputTokens * e.outputPrice)
         /\ result = cost(Obj(e), [input |-> n, output |-> e.maxOutputTokens, cached |-> 0])
         /\ \A k \in OutputsUpTo(e) :
              LET c == cost(Obj(e), [input |-> n, output |-> k])
              IN  c.kind = "return" /\ ~Less(result.value, c.value)

\* maxCost of a registry entry has returned more than the cost of the same
\* input with one output token less than the limit
Wit_C16_StrictlyAbove ==
  /\ pc = "done" /\ call.op = "maxCost" /\ NamesEntry(call.model)
  /\ call.model.type = "string"
  /\ call.inputTokens > 0
  /\ result.kind = "return"
  /\ Less(cost(Obj(CalledEntry),
                [input |-> call.inputTokens,
                 output |-> CalledEntry.maxOutputTokens - 1]).value,
           result.value)

\* C17: for every entry with cacheDiscountFactor f and every n >= 0 the cost
\* of n fully cached input tokens is f times the cost of n uncached ones:
\* cost(entry, {input: n, output: 0, cached: n})
\*   = f * cost(entry, {input: n, output: 0, cached: 0}).
Thm_C17_CacheDiscount ==
  (pc = "done" /\ call.op = "cost" /\ NamesEntry(call.model)
     /\ call.tokens.output = 0
     /\ "cached" \in DOMAIN call.tokens /\ call.tokens.cached = call.tokens.input)
  => LET e == CalledEntry
         uncached == cost(Obj(e), [input |-> call.tokens.input, output |-> 0, cached |-> 0])
     IN  /\ result.kind = "return" /\ uncached.kind = "return"
         /\ uncached.value.frac = 0
         /\ Scaled(result.value)
              = e.capabilities.cacheDiscountFactor * uncached.value.whole

\* the fully cached cost of a registry entry with a discount has come out
\* below its uncached cost
Wit_C17_Discounted ==
  /\ pc = "done" /\ call.op = "cost" /\ NamesEntry(call.model)
  /\ call.model.type = "string"
  /\ call.tokens = [input |-> 10000, output |-> 0, cached |-> 10000]
  /\ CalledEntry.capabilities.cacheDiscountFactor < 20
  /\ result.kind = "return"
  /\ Less(Whole(0), result.value)
  /\ Less(result.value, Whole(10000 * CalledEntry.inputPrice))

\* C18: cost is linear in the token counts when nothing is cached: for every
\* entry and all x, y >= 0,
\* cost(entry, {input: 2x, output: 2y}) = 2 * cost(entry, {input: x, output: y}).
Thm_C18_CostLinear ==
  (pc = "done" /\ call.op = "cost" /\ NamesEntry(call.model)
     /\ CachedOf(call.tokens) = 0
     /\ call.tokens.input >= 0 /\ call.tokens.output >= 0)
  => LET e == CalledEntry
         double == IF "cached" \in DOMAIN call.tokens
                     THEN [input |-> 2 * call.tokens.input,
                           output |-> 2 * call.tokens.output, cached |-> 0]
                     ELSE [input |-> 2 * call.tokens.input,
                           output |-> 2 * call.tokens.output]
     IN  /\ result.kind = "return"
         /\ cost(Obj(e), double) = Return(Plus(result.value, result.value))

\* a cost with nothing cached, input and output both charged, has been
\* returned, and the doubled usage costs more
Wit_C18_Doubled ==
  /\ pc = "done" /\ call.op = "cost" /\ NamesEntry(call.model)
  /\ call.tokens = [input |-> 10000, output |-> 5000]
  /\ result.kind = "return"
  /\ Less(Whole(0), result.value)
  /\ Less(result.value,
          cost(Obj(CalledEntry), [input |-> 20000, output |-> 10000]).value)

\* no two registry entries have the same inputPrice + outputPrice
NoPriceTies ==
  \A i, j \in Positions : Price(EntryAt(i)) = Price(EntryAt(j)) => i = j

Reverse(arr) == [i \in 1..Len(arr) |-> arr[Len(arr) + 1 - i]]

\* C19: when no two registry entries have the same inputPrice + outputPrice,
\* ranked('price', 'asc') reversed equals ranked('price', 'desc') element for
\* element.
Thm_C19_RankedReverse ==
  (pc = "done" /\ call.op = "ranked" /\ call.by = "price"
     /\ CalledOrder = "desc" /\ NoPriceTies)
  => result = Return(Reverse(ranked("price", "asc")))

\* ranked('price', 'desc') has returned on a registry of three or more
\* entries of pairwise different price
Wit_C19_NoTies ==
  /\ pc = "done" /\ call.op = "ranked" /\ call.by = "price"
  /\ CalledOrder = "desc" /\ NoPriceTies
  /\ Len(MODEL_CONFIGS) >= 3
  /\ result.value # ranked("price", "asc")
  /\ result.value # Object_values(MODEL_CONFIGS)

\* the operations of the query and selection engines
QueryOps ==
  { "lookup", "resolve", "exists", "from", "where", "supporting", "withContext",
    "directAccess", "openRouterOnly", "cheapest", "smartpick", "ranked" }

\* the entries that fit the arguments of a cheapest or smartpick call
Candidates ==
  { i \in Positions :
      IF call.op = "cheapest"
        THEN Satisfies(EntryAt(i), call.capabilities, call.options)
        ELSE /\ Price(EntryAt(i)) <= call.maxPricePerMillion
             /\ (call.capabilities # Undefined
                   => MatchesAll(EntryAt(i), call.capabilities)) }

\* C20: no operation of the query and selection engines raises an error, for
\* any argument; 'not found' or an empty candidate set is reported as
\* undefined by lookup, resolve, cheapest and smartpick, as false by exists
\* and as an empty list by the filters and ranked.
Claim_C20_TotalAbsent ==
  (pc = "done" /\ call.op \in QueryOps)
  => /\ result.kind = "return"
     /\ (call.op = "lookup" /\ call.name \notin OwnKeys(MODEL_CONFIGS))
          => result.value = Undefined
     /\ (call.op = "exists" /\ call.name \notin OwnKeys(MODEL_CONFIGS))
          => result.value = FALSE
     /\ (call.op = "resolve" /\ NamedFull(call.fullName) = {})
          => result.value = Undefined
     /\ (call.op \in {"cheapest", "smartpick"} /\ Candidates = {})
          => result.value = Undefined
     /\ (call.op = "from"
            /\ \A i \in Positions : EntryAt(i).provider # call.provider)
          => result.value = <<>>
     /\ (call.op = "withContext"
            /\ \A i \in Positions : EntryAt(i).contextWindow < call.minTokens)
          => result.value = <<>>
     /\ (call.op = "where"
            /\ \A i \in Positions : ~Apply(call.predicate, EntryAt(i).capabilities))
          => result.value = <<>>
     /\ (call.op = "ranked" /\ Positions = {}) => result.value = <<>>

\* C21: no call of a public query, cost, selection or insights operation,
\* the sorting ones included, changes the registry: it keeps its keys, their
\* order and the entry under every key with all its attribute values.
Thm_C21_RegistryUnchanged == [][MODEL_CONFIGS' = MODEL_CONFIGS]_vars

\* ranked has returned the entries in an order other than the registry's,
\* and the registry is still the one that was built
Wit_C21_SortedCopy ==
  /\ pc = "done" /\ call.op = "ranked"
  /\ result.value # Object_values(MODEL_CONFIGS)
  /\ \E n \in 0..MaxMissing : MODEL_CONFIGS = ModelRegistry(n)

\* C22: entries handed to callers are read-only views: a caller's write to
\* an attribute of a returned entry, or of its capabilities, does not change
\* the registry, so every later call returns what it returned before the
\* write.
Claim_C22_ReadOnlyViews ==
  LET built == Built
  IN  /\ MODEL_CONFIGS = built
      /\ (pc = "done" /\ call.op = "lookup")
           => result = Return(Get(built, call.name))
      /\ (pc = "done" /\ call.op = "resolve")
           => result = Return(Find(Object_values(built),
                                   LAMBDA m : m.fullName = call.fullName))
      /\ (pc = "done" /\ call.op = "from")
           => result = Return(Filter(Object_values(built),
                                     LAMBDA m : m.provider = call.provider))

\* the entries at the positions of S, in registry order
InOrder(S) ==
  LET idx == Select(Len(MODEL_CONFIGS), LAMBDA i : i \in S)
  IN  [j \in 1..Len(idx) |-> EntryAt(idx[j])]

Occurrences(arr, e) == Cardinality({ j \in 1..Len(arr) : arr[j] = e })

\* C23: directAccess() and openRouterOnly() partition the registry: every
\* entry appears in exactly one of the two results, directAccess() holds
\* exactly the entries with openRouterOnly = false and openRouterOnly()
\* exactly those with openRouterOnly = true, each in registry order.
Thm_C23_Partition ==
  (pc = "done" /\ call.op \in {"directAccess", "openRouterOnly"})
  => /\ result.kind = "return"
     /\ call.op = "directAccess"
          => result.value = InOrder({ i \in Positions : EntryAt(i).openRouterOnly = FALSE })
     /\ call.op = "openRouterOnly"
          => result.value = InOrder({ i \in Positions : EntryAt(i).openRouterOnly = TRUE })
     /\ \A i \in Positions :
          Occurrences(directAccess, EntryAt(i))
            + Occurrences(openRouterOnly, EntryAt(i)) = 1

\* openRouterOnly() has returned some entries and left others to directAccess()
Wit_C23_BothParts ==
  /\ pc = "done" /\ call.op = "openRouterOnly"
  /\ Len(result.value) > 0
  /\ Len(directAccess) > 0
  /\ Len(result.value) + Len(directAccess) = Len(MODEL_CONFIGS)

\* the record invariants of an entry; cacheDiscountFactor in twentieths
RecordInvariants(m) ==
  /\ m.inputPrice >= 0
  /\ m.outputPrice >= 0
  /\ m.contextWindow > 0
  /\ 0 < m.maxOutputTokens
  /\ m.maxOutputTokens <= m.contextWindow
  /\ m.capabilities.cacheDiscountFactor >= 0
  /\ m.capabilities.cacheDiscountFactor <= 20

\* C24: every entry of the registry satisfies the record invariants:
\* inputPrice >= 0, outputPrice >= 0, contextWindow > 0,
\* 0 < maxOutputTokens <= contextWindow and cacheDiscountFactor in [0, 1].
Thm_C24_RecordInvariants ==
  \A i \in Positions : RecordInvariants(EntryAt(i))

\* lookup has returned an entry at the edge of the invariants: its output
\* limit is its whole context window, and the registry also holds a free
\* entry and an entry with a cache discount
Wit_C24_AtTheEdge ==
  /\ pc = "done" /\ call.op = "lookup"
  /\ result.value \in Entries
  /\ result.value.maxOutputTokens = result.value.contextWindow
  /\ \E i, j \in Positions :
       /\ EntryAt(i).inputPrice = 0 /\ EntryAt(i).outputPrice = 0
       /\ EntryAt(j).capabilities.cacheDiscountFactor < 20

\* the model counts of the README's provider table
ReadmeCounts ==
  << Prop("deepseek", 7), Prop("xai", 5), Prop("moonshot", 8),
     Prop("dashscope", 3), Prop("copilot", 1), Prop("others", 2) >>

\* C25: the per-provider entry counts of the registry are those of the
\* README's provider table: from(provider), and insights().providers, has 7
\* entries for DeepSeek, 5 for xAI, 8 for Moonshot, 3 for DashScope, 1 for
\* Copilot and 2 for the 'others' provider.
Claim_C25_ReadmeCounts ==
  /\ (pc = "done" /\ call.op = "from" /\ call.provider \in OwnKeys(ReadmeCounts))
       => Len(result.value) = ValueOf(ReadmeCounts, call.provider)
  /\ (pc = "done" /\ call.op = "insights")
       => \A p \in OwnKeys(ReadmeCounts) :
            ValueOf(result.value.providers, p) = ValueOf(ReadmeCounts, p)

\* cheapest({}) with no options
CheapestOfAll == cheapest(Partial({}, DEFAULT_MODEL_CAPABILITIES), Undefined)

\* C26: the three ways of asking for the globally cheapest entry agree on
\* every non-empty registry: cheapest({}) with no options,
\* ranked('price', 'asc')[0] and insights().pricing.cheapest are the same
\* entry, the first in registry order with minimal inputPrice + outputPrice;
\* likewise ranked('context', 'asc')[0] equals insights().context.smallest.
Thm_C26_CheapestAgree ==
  /\ (pc = "done" /\ call.op = "cheapest"
        /\ call.capabilities.keys = {} /\ call.options = Undefined
        /\ Positions # {})
       => /\ result.value = EntryAt(First(MinPrice))
          /\ result.value = At(ranked("price", "asc"), 0)
          /\ result.value = insights.pricing.cheapest
  /\ (pc = "done" /\ call.op = "ranked" /\ CalledOrder = "asc" /\ Positions # {})
       => /\ call.by = "price"
               => /\ At(result.value, 0) = EntryAt(First(MinPrice))
                  /\ At(result.value, 0) = CheapestOfAll
                  /\ At(result.value, 0) = insights.pricing.cheapest
          /\ call.by = "context"
               => At(result.value, 0) = insights.context.smallest
  /\ (pc = "done" /\ call.op = "insights" /\ Positions # {})
       => /\ result.value.pricing.cheapest = EntryAt(First(MinPrice))
          /\ result.value.pricing.cheapest = CheapestOfAll
          /\ result.value.pricing.cheapest = At(ranked("price", "asc"), 0)
          /\ result.value.context.smallest = At(ranked("context", "asc"), 0)

\* ranked('context', 'asc') has returned, its first element is the smallest
\* entry of insights(), and that entry is not the first of the registry
Wit_C26_SmallestAgrees ==
  /\ pc = "done" /\ call.op = "ranked" /\ call.by = "context"
  /\ CalledOrder = "asc"
  /\ At(result.value, 0) = insights.context.smallest
  /\ At(result.value, 0) # EntryAt(1)
  /\ CheapestOfAll = insights.pricing.cheapest
  /\ CheapestOfAll # EntryAt(1)

\* C27: each deprecated legacy function returns what its replacement
\* returns, and fails exactly when it fails:
\* calculateCost(m, i, o, c) = cost(m, {input: i, output: o, cached: c}) with
\* c defaulting to 0; sortModelsByMetric(metric, ascending)
\* = ranked(metric, 'asc' if ascending else 'desc') with ascending defaulting
\* to true; findCheapestModel(req, minCtx) = cheapest(req, {minContext: minCtx}),
\* and = cheapest(req) when minCtx is omitted.
Thm_C27_LegacyEquivalent ==
  /\ (pc = "done" /\ call.op = "calculateCost")
       => /\ call.cachedInputTokens = <<>>
               => /\ result = cost(call.model, [input |-> call.inputTokens,
                                                 output |-> call.outputTokens,
                                                 cached |-> 0])
                  /\ result = cost(call.model, [input |-> call.inputTokens,
                                                 output |-> call.outputTokens])
          /\ call.cachedInputTokens # <<>>
               => result = cost(call.model, [input |-> call.inputTokens,
                                             output |-> call.outputTokens,
                                             cached |-> call.cachedInputTokens[1]])
  /\ (pc = "done" /\ call.op = "sortModelsByMetric")
       => /\ call.ascending \in { <<>>, <<TRUE>> }
               => result = Return(ranked(call.metric, "asc"))
          /\ call.ascending = <<FALSE>>
               => result = Return(ranked(call.metric, "desc"))
  /\ (pc = "done" /\ call.op = "findCheapestModel")
       => /\ call.minContextWindow = <<>>
               => result = Return(cheapest(call.requirements, Undefined))
          /\ call.minContextWindow # <<>>
               => result = Return(cheapest(call.requirements,
                                           [minContext |-> call.minContextWindow[1]]))

\* calculateCost with cached tokens given has returned the discounted cost
\* of a registry entry, below the cost with nothing cached
Wit_C27_CachedPassedOn ==
  /\ pc = "done" /\ call.op = "calculateCost"
  /\ NamesEntry(call.model)
  /\ call.inputTokens = 10000 /\ call.cachedInputTokens = <<8000>>
  /\ result.kind = "return"
  /\ result = cost(call.model, [input |-> 10000, output |-> call.outputTokens,
                                 cached |-> 8000])
  /\ Less(result.value,
          cost(call.model, [input |-> 10000, output |-> call.outputTokens]).value)

====
